---------------------------- MODULE Spec2Model ----------------------------
(***************************************************************************)
(* A model of specter, a command-line client of the Ghost Admin API:       *)
(*   api/auth.go      GenerateToken, hexDecode                             *)
(*   api/client.go    Client.doRequest, Get, Post, Put, Delete and         *)
(*                    UploadImage                                          *)
(*   cmd/*.go         the list commands (the --all pagination walk), the   *)
(*                    get-by-identifier helpers, the tags' create, update  *)
(*                    and delete, and images upload                        *)
(*   content          Parse (frontmatter + markdown)                       *)
(* Strings the code takes apart (the admin key, the document) are          *)
(* sequences of one-character strings.                                     *)
(***************************************************************************)
EXTENDS Integers, Sequences, FiniteSets, TLC

VARIABLES
    adminKey,     \* GenerateToken: its argument
    tokenResult,  \* GenerateToken: what it returned
    issued,       \* GenerateToken: every call so far, its time and its result
    hexBytes,     \* the bytes a hex string was made from
    hexString,    \* hexDecode: its argument
    hexResult,    \* hexDecode: what it returned
    data,         \* Parse: its argument
    parsed,       \* Parse: what it returned
    cmd,          \* the command line being run (command, resource, flags, args)
    key,          \* Client.key
    pc,           \* where the command is
    page,         \* the cursor of the --all loop
    all,          \* the accumulator of the list commands (allPosts, allPages, ...)
    calls,        \* every pipeline call made so far, with its network attempts
    uploads,      \* every call of UploadImage made so far
    baseURL,      \* Client.baseURL of the command's client
    lookups,      \* what runPostsGet and getPost did with the same identifier
    configFile,   \* what is at ~/.config/specter/config.yaml
    oldFile,      \* what is at ~/.specter.yaml
    loadEnv,      \* config.Load: the flags and the environment it ran with
    loaded,       \* config.Load: what it returned
    saved,        \* config.SaveInstance: every call so far
    ret           \* what the command returned

vars == <<adminKey, tokenResult, issued, hexBytes, hexString, hexResult, data, parsed, cmd, key, pc, page, all, calls, uploads, ret, baseURL, lookups,
         configFile, oldFile, loadEnv, loaded, saved>>

tokenVars == <<adminKey, tokenResult, issued, hexBytes, hexString, hexResult>>
hexVars == <<hexBytes, hexString, hexResult>>
parseVars == <<data, parsed>>
cmdVars == <<cmd, key, baseURL, lookups, pc, page, all, calls, uploads, ret>>
configVars == <<configFile, oldFile, loadEnv, loaded, saved>>

(***************************************************************************)
(* Strings                                                                 *)
(***************************************************************************)

\* The sequences over S of length at most n.
SeqsUpTo(S, n) == UNION {[1..k -> S] : k \in 0..n}

\* The byte value of the characters the models use.
Ord(c) ==
    CASE c = "/" -> 47
      [] c = "0" -> 48
      [] c = "1" -> 49
      [] c = "2" -> 50
      [] c = "3" -> 51
      [] c = "4" -> 52
      [] c = "5" -> 53
      [] c = "6" -> 54
      [] c = "7" -> 55
      [] c = "8" -> 56
      [] c = "9" -> 57
      [] c = ":" -> 58
      [] c = "@" -> 64
      [] c = "A" -> 65
      [] c = "B" -> 66
      [] c = "C" -> 67
      [] c = "D" -> 68
      [] c = "E" -> 69
      [] c = "F" -> 70
      [] c = "G" -> 71
      [] c = "_" -> 95
      [] c = "a" -> 97
      [] c = "b" -> 98
      [] c = "c" -> 99
      [] c = "d" -> 100
      [] c = "e" -> 101
      [] c = "f" -> 102
      [] c = "g" -> 103
      [] c = "k" -> 107

\* The least and the greatest index of sep in s; 0 when s has none.
Index(s, sep) ==
    IF \E i \in 1..Len(s) : s[i] = sep
    THEN CHOOSE i \in 1..Len(s) : s[i] = sep /\ \A j \in 1..(i - 1) : s[j] # sep
    ELSE 0

LastIndex(s, sep) ==
    IF \E i \in 1..Len(s) : s[i] = sep
    THEN CHOOSE i \in 1..Len(s) : s[i] = sep /\ \A j \in (i + 1)..Len(s) : s[j] # sep
    ELSE 0

(***************************************************************************)
(* api/auth.go                                                             *)
(***************************************************************************)

NoErr == "none"

\* One hex digit, the range of the lower-case digits one too wide
hexNibbleWide(c) ==
    CASE Ord(c) >= Ord("0") /\ Ord(c) <= Ord("9") -> [ok |-> TRUE, nibble |-> Ord(c) - Ord("0")]
      [] Ord(c) >= Ord("a") /\ Ord(c) <= Ord("g") -> [ok |-> TRUE, nibble |-> Ord(c) - Ord("a") + 10]
      [] Ord(c) >= Ord("A") /\ Ord(c) <= Ord("F") -> [ok |-> TRUE, nibble |-> Ord(c) - Ord("A") + 10]
      [] OTHER -> [ok |-> FALSE, nibble |-> 0]

\* One hex digit: [ok, nibble].
hexNibble(c) ==
    CASE Ord(c) >= Ord("0") /\ Ord(c) <= Ord("9") -> [ok |-> TRUE, nibble |-> Ord(c) - Ord("0")]
      [] Ord(c) >= Ord("a") /\ Ord(c) <= Ord("f") -> [ok |-> TRUE, nibble |-> Ord(c) - Ord("a") + 10]
      [] Ord(c) >= Ord("A") /\ Ord(c) <= Ord("F") -> [ok |-> TRUE, nibble |-> Ord(c) - Ord("A") + 10]
      [] OTHER -> [ok |-> FALSE, nibble |-> 0]

\* The two digits of a byte taken the other way round
hexByteSwapped(hi, lo) == (((lo.nibble * 16) % 256) + hi.nibble) % 256

\* b = b<<4 | nibble, twice, in a byte
hexByte(hi, lo) == (((hi.nibble * 16) % 256) + lo.nibble) % 256

\* One turn of the outer loop with the second character of a pair taken as
\* a digit without a look at it.
hexPairFirstChecked(hi, lo, rest) ==
    IF ~hi.ok THEN [err |-> "invalid hex character", bytes |-> <<>>]
    ELSE IF rest.err # NoErr THEN rest
    ELSE [err |-> NoErr, bytes |-> <<hexByte(hi, lo)>> \o rest.bytes]

\* One turn of hexDecode's outer loop: the two digits hi and lo make a byte
\* put before the bytes of the rest; a character that is no hex digit ends
\* the decoding with an error.
hexPair(hi, lo, rest) ==
    IF ~hi.ok \/ ~lo.ok THEN [err |-> "invalid hex character", bytes |-> <<>>]
    ELSE IF rest.err # NoErr THEN rest
    ELSE [err |-> NoErr, bytes |-> <<hexByte(hi, lo)>> \o rest.bytes]

\* The bytes of s[i..], two characters a byte.
RECURSIVE hexDecodeFrom(_, _)
hexDecodeFrom(s, i) ==
    IF i > Len(s) THEN [err |-> NoErr, bytes |-> <<>>]
    ELSE hexPair(hexNibble(s[i]), hexNibble(s[i + 1]), hexDecodeFrom(s, i + 2))

hexDecode(s) ==
    IF Len(s) % 2 # 0
    THEN [err |-> "hex string has odd length", bytes |-> <<>>]
    ELSE hexDecodeFrom(s, 1)

\* The two parts of s cut at its i-th character, or s alone when i = 0.
CutAt(s, i) ==
    IF i = 0 THEN <<s>> ELSE <<SubSeq(s, 1, i - 1), SubSeq(s, i + 1, Len(s))>>

\* strings.SplitN(adminKey, ":", 2), cut at the last separator instead.
SplitN2Last(s) == CutAt(s, LastIndex(s, ":"))

\* strings.SplitN(adminKey, ":", 2): at most two parts, cut at the first ":".
SplitN2(s) == CutAt(s, Index(s, ":"))

\* The five minutes taken as milliseconds
TokenLifetimeMillis == 300 * 1000

\* now.Add(5 * time.Minute).Unix() - now.Unix()
TokenLifetime == 300

NoToken == [kid |-> <<>>, alg |-> "", iat |-> 0, exp |-> 0, aud |-> "", signedWith |-> <<>>]

\* The token of key id keyID signed with secretBytes at time now (seconds).
\* The signature is kept as the key that made it: the header and the claims
\* it covers are the other fields.
SignedToken(keyID, secretBytes, now) ==
    [kid |-> keyID, alg |-> "HS256", iat |-> now, exp |-> now + TokenLifetime,
     aud |-> "/admin/", signedWith |-> secretBytes]

\* GenerateToken from the decoding of the secret on.
TokenOfSecret(keyID, dec, now) ==
    IF dec.err # NoErr
    THEN [err |-> "decoding secret", cause |-> dec.err, token |-> NoToken]
    ELSE [err |-> NoErr, cause |-> NoErr, token |-> SignedToken(keyID, dec.bytes, now)]

\* GenerateToken from the check of the parts on.
TokenOfParts(parts, now) ==
    IF Len(parts) # 2
    THEN [err |-> "invalid admin key format", cause |-> NoErr, token |-> NoToken]
    ELSE TokenOfSecret(parts[1], hexDecode(parts[2]), now)

\* GenerateToken(adminKey) called at time now: [err, cause, token].
GenerateToken(k, now) == TokenOfParts(SplitN2(k), now)

(***************************************************************************)
(* api/client.go: the request pipeline                                     *)
(***************************************************************************)

\* A response body is text that is or is not JSON. What json.Unmarshal makes
\* of it depends on its syntax and on three fields:
\*   syntax  "text" (not JSON), "null", "array" or "object"
\*   errors  <<"absent">>, <<"bad">> (not an array of objects) or
\*           <<"arr", message, ...>>
\*   list    the resource-named array ("posts", "pages", ...), the same way
\*   next    meta.pagination.next: absent (or null), a number, or not a number
Body(syntax, errors, list, next) ==
    [syntax |-> syntax, errors |-> errors, list |-> list, next |-> next]

NextAbsent == [tag |-> "absent", n |-> 0]
NextBad == [tag |-> "bad", n |-> 0]
NextInt(n) == [tag |-> "int", n |-> n]

NoBody == Body("none", <<"absent">>, <<"absent">>, NextAbsent)

\* json.Unmarshal(respBody, &apiErr): [err, Errors]
UnmarshalAPIError(b) ==
    CASE b.syntax = "null" -> [err |-> FALSE, Errors |-> <<>>]
      [] b.syntax = "object" /\ Head(b.errors) = "absent" -> [err |-> FALSE, Errors |-> <<>>]
      [] b.syntax = "object" /\ Head(b.errors) = "arr" -> [err |-> FALSE, Errors |-> Tail(b.errors)]
      [] OTHER -> [err |-> TRUE, Errors |-> <<>>]

\* json.Unmarshal(data, &resp) for a postsResponse, pagesResponse, ...:
\* [err, items, next]. Fields the struct does not have ("errors") are skipped.
UnmarshalList(b) ==
    CASE b.syntax = "null" -> [err |-> FALSE, items |-> <<>>, next |-> 0]
      [] b.syntax = "object" /\ Head(b.list) # "bad" /\ b.next.tag # "bad" ->
            [err |-> FALSE,
             items |-> IF Head(b.list) = "arr" THEN Tail(b.list) ELSE <<>>,
             next |-> IF b.next.tag = "int" THEN b.next.n ELSE 0]
      [] OTHER -> [err |-> TRUE, items |-> <<>>, next |-> 0]

\* An error value: its kind, and what it carries.
Error(kind, errors, body, status, cause) ==
    [kind |-> kind, Errors |-> errors, body |-> body, status |-> status, cause |-> cause]

Nil == Error(NoErr, <<>>, NoBody, 0, NoErr)

\* What the network did with a request that was sent:
\*   "error"     c.http.Do failed
\*   "readerr"   the headers came, reading the body failed
\*   "response"  a status and a whole body
NetError == [kind |-> "error", status |-> 0, body |-> NoBody]
NetReadErr(status) == [kind |-> "readerr", status |-> status, body |-> NoBody]
NetResponse(status, body) == [kind |-> "response", status |-> status, body |-> body]

\* A request target: the resource path, the identifier in it ("" for the
\* collection), and the query of Get ([] when it has none).
NoQuery == [limit |-> <<>>, page |-> <<>>, filter |-> <<>>]

\* fmt.Sprintf("/posts/%s/", id) puts the identifier into the path unescaped,
\* and http.NewRequest refuses a URL with a broken percent escape. Get's
\* params go through url.Values.Encode, which escapes them.
BadEscape(id) == id = "50%"

\* Every status that is not a 2xx taken as an error
IsErrorStatusFrom300(status) == status >= 300

\* if resp.StatusCode >= 400
IsErrorStatus(status) == status >= 400

\* The error of a response with an error status, the structured error
\* whatever the body holds.
StatusErrorAlwaysAPI(status, respBody) ==
    Error("api", UnmarshalAPIError(respBody).Errors, NoBody, 0, NoErr)


\* The error of a response with an error status, apiErr being the decoding
\* of its body: the decoded APIError when the body decodes and has an item,
\* else an error with the body and the status.
StatusErrorOf(apiErr, status, respBody) ==
    IF ~apiErr.err /\ Len(apiErr.Errors) > 0
    THEN Error("api", apiErr.Errors, NoBody, 0, NoErr)
    ELSE Error("API error", <<>>, respBody, status, NoErr)

StatusError(status, respBody) ==
    StatusErrorOf(UnmarshalAPIError(respBody), status, respBody)

\* One more c.http.Do after a failed one.
AttemptsWithRetry(net) == IF net.kind = "error" THEN 2 ELSE 1

\* c.http.Do(req) is called once.
Attempts(net) == 1

\* doRequest once the token tok is there (or is not).
doRequestWith(tok, id, net) ==
    IF tok.err # NoErr
    THEN [err |-> Error("generating token", <<>>, NoBody, 0, tok.err),
          data |-> NoBody, attempts |-> 0, token |-> NoToken]
    ELSE IF BadEscape(id)
    THEN [err |-> Error("creating request", <<>>, NoBody, 0, NoErr),
          data |-> NoBody, attempts |-> 0, token |-> NoToken]
    ELSE IF net.kind = "error"
    THEN [err |-> Error("request failed", <<>>, NoBody, 0, NoErr),
          data |-> NoBody, attempts |-> Attempts(net), token |-> tok.token]
    ELSE IF net.kind = "readerr"
    THEN [err |-> Error("reading response", <<>>, NoBody, 0, NoErr),
          data |-> NoBody, attempts |-> Attempts(net), token |-> tok.token]
    ELSE IF IsErrorStatus(net.status)
    THEN [err |-> StatusError(net.status, net.body),
          data |-> NoBody, attempts |-> Attempts(net), token |-> tok.token]
    ELSE [err |-> Nil, data |-> net.body, attempts |-> Attempts(net),
          token |-> tok.token]

\* doRequest that goes on without a token when none could be made
doRequestUnsigned(k, method, id, now, net) ==
    doRequestWith([err |-> NoErr, cause |-> NoErr, token |-> GenerateToken(k, now).token],
                  id, net)

\* doRequest with the token of the client's first call kept and sent again
doRequestCachedToken(k, method, id, now, net) ==
    doRequestWith(IF calls # <<>> /\ calls[1].token # NoToken
                  THEN [err |-> NoErr, cause |-> NoErr, token |-> calls[1].token]
                  ELSE GenerateToken(k, now),
                  id, net)

\* doRequest(method, path, body) on a client with key k, at time now, when
\* the network answers net to what is sent:
\* [err, data, attempts, token], attempts being the calls of c.http.Do.
\* (json.Marshal of the maps the commands build cannot fail.)
doRequest(k, method, id, now, net) == doRequestWith(GenerateToken(k, now), id, net)

\* Client.Get(path, params)
Get(k, id, now, net) == doRequest(k, "GET", id, now, net)

\* Client.Post(path, body)
Post(k, id, now, net) == doRequest(k, "POST", id, now, net)

\* Client.Put(path, body)
Put(k, id, now, net) == doRequest(k, "PUT", id, now, net)

\* Client.Delete(path)
Delete(k, id, now, net) == doRequest(k, "DELETE", id, now, net)

\* The url of an item of "images": the items are "img", which has one,
\* "img-empty-url", whose url is "", and "img-no-url", which has none and
\* leaves the struct's field at its zero value.
ImageURL(item) == IF item = "img" THEN "https://h/i.png" ELSE ""

\* json.Unmarshal(respBody, &result) in UploadImage: [err, Images], Images
\* being the URLs of the items.
UnmarshalImages(b) ==
    CASE b.syntax = "null" -> [err |-> FALSE, Images |-> <<>>]
      [] b.syntax = "object" /\ Head(b.list) = "absent" -> [err |-> FALSE, Images |-> <<>>]
      [] b.syntax = "object" /\ Head(b.list) = "arr" ->
            [err |-> FALSE, Images |-> [i \in 1..(Len(b.list) - 1) |-> ImageURL(b.list[i + 1])]]
      [] OTHER -> [err |-> TRUE, Images |-> <<>>]

\* What UploadImage returns, and what it did: [err, url, attempts, token,
\* opens], opens being its calls of os.Open.
Uploaded(err, url, attempts, token) ==
    [err |-> err, url |-> url, attempts |-> attempts, token |-> token, opens |-> 1]

\* UploadImage returning err before it gets to the file
UploadedUnopened(err) ==
    [err |-> err, url |-> "", attempts |-> 0, token |-> NoToken, opens |-> 0]

\* UploadImage from the decoding of the response on (client.go:200-208).
UploadedURL(result, token) ==
    IF result.err
    THEN Uploaded(Error("parsing response", <<>>, NoBody, 0, NoErr), "", 1, token)
    ELSE IF Len(result.Images) = 0
    THEN Uploaded(Error("no image URL in response", <<>>, NoBody, 0, NoErr), "", 1, token)
    ELSE Uploaded(Nil, result.Images[1], 1, token)

\* The error of an upload answered with an error status: the decoded
\* APIError, else an error with the body (and without the status).
UploadStatusErrorOf(apiErr, respBody) ==
    IF ~apiErr.err /\ Len(apiErr.Errors) > 0
    THEN Error("api", apiErr.Errors, NoBody, 0, NoErr)
    ELSE Error("upload error", <<>>, respBody, 0, NoErr)

\* UploadImage once the token tok is there (or is not). The file is "image"
\* (it opens and reads), "missing" (os.Open fails) or "directory" (it opens,
\* io.Copy fails reading it).
UploadImageWith(tok, file, net) ==
    IF tok.err # NoErr
    THEN UploadedUnopened(Error("generating token", <<>>, NoBody, 0, tok.err))
    ELSE IF file = "missing"
    THEN Uploaded(Error("opening file", <<>>, NoBody, 0, NoErr), "", 0, NoToken)
    ELSE IF file = "directory"
    THEN Uploaded(Error("copying file", <<>>, NoBody, 0, NoErr), "", 0, NoToken)
    ELSE IF net.kind = "error"
    THEN Uploaded(Error("upload failed", <<>>, NoBody, 0, NoErr), "", 1, tok.token)
    ELSE IF net.kind = "readerr"
    THEN Uploaded(Error("reading response", <<>>, NoBody, 0, NoErr), "", 1, tok.token)
    ELSE IF IsErrorStatus(net.status)
    THEN Uploaded(UploadStatusErrorOf(UnmarshalAPIError(net.body), net.body), "", 1, tok.token)
    ELSE UploadedURL(UnmarshalImages(net.body), tok.token)

\* Client.UploadImage(filePath, ref) on a client with key k, at time now,
\* when the network answers net. (ref goes into the form and nowhere else.)
UploadImage(k, file, ref, now, net) == UploadImageWith(GenerateToken(k, now), file, net)

(***************************************************************************)
(* content: Parse                                                          *)
(***************************************************************************)

LF == "\n"
CR == "\r"

\* unicode.IsSpace on the characters of the documents
IsSpace(c) == c \in {" ", "\t", LF, CR}

RECURSIVE TrimLeft(_)
TrimLeft(s) == IF s # <<>> /\ IsSpace(Head(s)) THEN TrimLeft(Tail(s)) ELSE s

RECURSIVE TrimRight(_)
TrimRight(s) ==
    IF s # <<>> /\ IsSpace(s[Len(s)]) THEN TrimRight(SubSeq(s, 1, Len(s) - 1)) ELSE s

\* strings.TrimSpace
TrimSpace(s) == TrimRight(TrimLeft(s))

\* bufio's dropCR: a line loses one trailing carriage return.
dropCR(s) == IF s # <<>> /\ s[Len(s)] = CR THEN SubSeq(s, 1, Len(s) - 1) ELSE s

\* Every token a bufio.Scanner with the default split function (ScanLines)
\* yields on d: the text between line feeds, without the line feed and
\* without a trailing carriage return; text after the last line feed is a
\* last line, unless it is empty. (Lines are far shorter than
\* bufio.MaxScanTokenSize, so the scanner reports no error.)
RECURSIVE ScanLines(_)
ScanLines(d) ==
    IF d = <<>> THEN <<>>
    ELSE LET i == Index(d, LF)
         IN  IF i = 0 THEN <<dropCR(d)>>
             ELSE <<dropCR(SubSeq(d, 1, i - 1))>> \o ScanLines(SubSeq(d, i + 1, Len(d)))

Delimiter == <<"-", "-", "-">>

\* WriteString(line) for each of lines[from..to], the line feed forgotten
RECURSIVE WriteLinesNoNewline(_, _, _)
WriteLinesNoNewline(lines, from, to) ==
    IF from > to THEN <<>>
    ELSE lines[from] \o WriteLinesNoNewline(lines, from + 1, to)

\* WriteString(line); WriteString("\n") for each of lines[from..to]
RECURSIVE WriteLines(_, _, _)
WriteLines(lines, from, to) ==
    IF from > to THEN <<>>
    ELSE lines[from] \o <<LF>> \o WriteLines(lines, from + 1, to)

TitleLine == <<"t", "i", "t", "l", "e", ":", " ", "H", "i">>

StatusLine ==
    <<"s", "t", "a", "t", "u", "s", ":", " ", "p", "u", "b", "l", "i", "s", "h", "e", "d">>

Published == <<"p", "u", "b", "l", "i", "s", "h", "e", "d">>

\* The fields of content.Frontmatter the model's blocks can set
EmptyFrontmatter == [Title |-> <<>>, Status |-> <<>>]

\* The lines of a metadata block (each ends with a line feed).
BlockLines(block) == ScanLines(block)

IsBlank(s) == \A i \in 1..Len(s) : IsSpace(s[i])

\* yaml.Unmarshal(block, &content.Frontmatter). yaml.v3 is a library outside
\* the repository; the model decides the two shapes it is sure of: a block
\* with blank lines only decodes to nothing and leaves the struct zero, and a
\* block whose non-blank lines are "title: Hi" and "status: published", each
\* at most once, sets Title and Status from the line that is there. What the
\* library says of any other block is left open: it fails when strict, and
\* decodes to nothing otherwise.
yamlUnmarshal(block, strict) ==
    LET ls == BlockLines(block)
        nonBlank == {i \in 1..Len(ls) : ~IsBlank(ls[i])}
    IN  IF nonBlank = {} THEN [err |-> NoErr, fm |-> EmptyFrontmatter]
        ELSE IF /\ \A i \in nonBlank : ls[i] \in {TitleLine, StatusLine}
                /\ \A i, j \in nonBlank : ls[i] = ls[j] => i = j
        THEN [err |-> NoErr,
              fm |-> [Title |-> IF \E i \in nonBlank : ls[i] = TitleLine
                                THEN <<"H", "i">> ELSE <<>>,
                      Status |-> IF \E i \in nonBlank : ls[i] = StatusLine
                                 THEN Published ELSE <<>>]]
        ELSE IF strict THEN [err |-> "yaml", fm |-> EmptyFrontmatter]
        ELSE [err |-> NoErr, fm |-> EmptyFrontmatter]

\* Convert that wraps whatever it is given, nothing too
ConvertWrapping(md) == <<"<", "p", ">">> \o md

\* goldmark's Convert into a bytes.Buffer: it cannot fail, and the HTML is a
\* function of the markdown alone; blank markdown renders to nothing.
Convert(md) == IF IsBlank(md) THEN <<>> ELSE <<"<", "p", ">">> \o md

NoContent == [Frontmatter |-> EmptyFrontmatter, HTML |-> <<>>, Markdown |-> <<>>]

\* The index of the last delimiter line of lines after line 1: the block
\* goes on over the delimiter lines before it.
ClosingLineLast(lines) ==
    IF \E j \in 2..Len(lines) : TrimSpace(lines[j]) = Delimiter
    THEN CHOOSE j \in 2..Len(lines) :
             /\ TrimSpace(lines[j]) = Delimiter
             /\ \A m \in (j + 1)..Len(lines) : TrimSpace(lines[m]) # Delimiter
    ELSE Len(lines) + 1

\* The index of the first delimiter line of lines after line 1; Len + 1 when
\* the scanner runs out first.
ClosingLine(lines) ==
    IF \E j \in 2..Len(lines) : TrimSpace(lines[j]) = Delimiter
    THEN CHOOSE j \in 2..Len(lines) :
             /\ TrimSpace(lines[j]) = Delimiter
             /\ \A m \in 2..(j - 1) : TrimSpace(lines[m]) # Delimiter
    ELSE Len(lines) + 1

\* Parse(data): [err, content, block] where block is what frontmatterBuf
\* held when it was decoded (nothing when the frontmatter branch was not
\* taken). The first scanner.Scan() consumes line 1 whether or not it is the
\* delimiter; the markdown loop goes on from the scanner's position.
Parse(d, strict) ==
    LET lines == ScanLines(d)
        isFm == Len(lines) >= 1 /\ TrimSpace(lines[1]) = Delimiter
        close == ClosingLine(lines)
        block == WriteLines(lines, 2, close - 1)
        y == IF isFm THEN yamlUnmarshal(block, strict)
             ELSE [err |-> NoErr, fm |-> EmptyFrontmatter]
        \* the first line the markdown loop reads
        from == IF isFm THEN close + 1 ELSE 2
        markdown == WriteLines(lines, from, Len(lines))
    IN  IF y.err # NoErr
        THEN [err |-> "parsing frontmatter", content |-> NoContent, block |-> block]
        ELSE [err |-> NoErr,
              content |-> [Frontmatter |-> y.fm, HTML |-> Convert(markdown),
                           Markdown |-> markdown],
              block |-> IF isFm THEN block ELSE <<>>]

(***************************************************************************)
(* internal/config: Load, loadFileConfig                                   *)
(***************************************************************************)

\* Config{URL, Key}; the strings are opaque here, "" is the empty one.
Config(url, k) == [URL |-> url, Key |-> k]

NoConfig == Config("", "")

\* map[string]Config with no entry (a nil map reads the same)
NoInstances == [n \in {} |-> NoConfig]

\* What is at a path: nothing that can be read ("none"), text that is no
\* YAML of a FileConfig ("bad"), or a FileConfig ("yaml").
File(kind, default, instances, url, k) ==
    [kind |-> kind, Default |-> default, Instances |-> instances, URL |-> url, Key |-> k]

NoFile == File("none", "", NoInstances, "", "")
BadFile == File("bad", "", NoInstances, "", "")

\* loadFileConfig: the first of the two paths that can be read decides; it
\* is returned if it decodes, and nothing is (with an error) if it does not
\* or if neither path can be read.
loadFileConfig(cf, of) ==
    IF cf.kind # "none" THEN cf
    ELSE IF of.kind # "none" THEN of
    ELSE NoFile

\* The flags and the environment of a run
Env(flagURL, flagKey, flagProfile, envURL, envKey, envProfile) ==
    [FlagURL |-> flagURL, FlagKey |-> flagKey, FlagProfile |-> flagProfile,
     GHOST_URL |-> envURL, GHOST_ADMIN_KEY |-> envKey, GHOST_PROFILE |-> envProfile]

\* config.go:43-49
SelectedProfile(env, fileCfg) ==
    IF env.FlagProfile # "" THEN env.FlagProfile
    ELSE IF env.GHOST_PROFILE # "" THEN env.GHOST_PROFILE
    ELSE fileCfg.Default

\* config.go:51-56
FromProfile(fileCfg, profile) ==
    IF profile # "" /\ profile \in DOMAIN fileCfg.Instances
    THEN fileCfg.Instances[profile]
    ELSE NoConfig

\* config.go:59-62: the legacy fields, both, when there is no URL yet
WithLegacy(cfg, fileCfg) ==
    IF cfg.URL = "" /\ fileCfg.URL # "" THEN Config(fileCfg.URL, fileCfg.Key) ELSE cfg

\* config.go:40-63: fileCfg is nil unless a file was read and decoded
FromFile(env, fileCfg) ==
    IF fileCfg.kind # "yaml" THEN NoConfig
    ELSE WithLegacy(FromProfile(fileCfg, SelectedProfile(env, fileCfg)), fileCfg)

\* config.go:66-71
WithEnv(cfg, env) ==
    Config(IF env.GHOST_URL # "" THEN env.GHOST_URL ELSE cfg.URL,
           IF env.GHOST_ADMIN_KEY # "" THEN env.GHOST_ADMIN_KEY ELSE cfg.Key)

\* The flags used only for what is still empty
WithFlagsLast(cfg, env) ==
    Config(IF cfg.URL = "" THEN env.FlagURL ELSE cfg.URL,
           IF cfg.Key = "" THEN env.FlagKey ELSE cfg.Key)

\* config.go:74-79
WithFlags(cfg, env) ==
    Config(IF env.FlagURL # "" THEN env.FlagURL ELSE cfg.URL,
           IF env.FlagKey # "" THEN env.FlagKey ELSE cfg.Key)

\* config.go:82-89
Validate(cfg) ==
    IF cfg.URL = "" THEN [err |-> "ghost URL not configured", cfg |-> NoConfig]
    ELSE IF cfg.Key = "" THEN [err |-> "ghost admin key not configured", cfg |-> NoConfig]
    ELSE [err |-> NoErr, cfg |-> cfg]

\* config.Load() with the flags and the environment env, cf and of being
\* what is at the two paths: [err, cfg]
Load(env, cf, of) ==
    Validate(WithFlags(WithEnv(FromFile(env, loadFileConfig(cf, of)), env), env))

\* config.go:142-150: what SaveInstance starts from, an empty FileConfig
\* when no file was read and decoded
Existing(fileCfg) ==
    IF fileCfg.kind # "yaml" THEN File("yaml", "", NoInstances, "", "") ELSE fileCfg

\* config.go:153-163: legacy fields become the instance "default"
Migrated(f) ==
    IF f.URL # "" /\ DOMAIN f.Instances = {}
    THEN File("yaml", IF f.Default = "" THEN "default" ELSE f.Default,
              [n \in {"default"} |-> Config(f.URL, f.Key)], "", "")
    ELSE f

\* config.go:166
WithInstance(f, name, cfg) == [f EXCEPT !.Instances = (name :> cfg) @@ f.Instances]

\* The saved instance made the default whatever was asked
WithDefaultAlways(f, name, setDefault) == [f EXCEPT !.Default = name]

\* config.go:169-171
WithDefault(f, name, setDefault) ==
    IF setDefault \/ f.Default = "" THEN [f EXCEPT !.Default = name] ELSE f

\* The FileConfig SaveInstance(name, cfg, setDefault) writes to
\* ~/.config/specter/config.yaml, cf and of being what is at the two paths.
\* What yaml.Marshal writes decodes to the FileConfig it was given.
SaveInstance(name, cfg, setDefault, cf, of) ==
    WithDefault(WithInstance(Migrated(Existing(loadFileConfig(cf, of))), name, cfg),
                name, setDefault)

\* The record of a call of SaveInstance: its arguments, what was at
\* config.yaml before it, and its error.
Saved(name, cfg, setDefault, before, err) ==
    [name |-> name, cfg |-> cfg, setDefault |-> setDefault, before |-> before, err |-> err]

NoEnv == Env("", "", "", "", "", "")

NotLoaded == [err |-> "not called", cfg |-> NoConfig]

ConfigIdle ==
    /\ configFile = NoFile
    /\ oldFile = NoFile
    /\ loadEnv = NoEnv
    /\ loaded = NotLoaded
    /\ saved = <<>>

(***************************************************************************)
(* GenerateToken on every key over a small alphabet                        *)
(***************************************************************************)

MaxKeyLen == 4

\* The calls of GenerateToken in one run
MaxIssues == 2

KeyChars == {"k", ":", "a", "F", "g"}

\* time.Now().Unix() at the call
Times == {1000, 1001}

NotCalled == [err |-> "not called", cause |-> NoErr, token |-> NoToken]

NoCmd == [name |-> "none"]

NotParsed == [err |-> "not called", content |-> NoContent, block |-> <<>>]

NoRet == [err |-> "not returned"]

\* The parts of the state a specification does not use stay as they are here.
NotLookedUp == <<>>

NotDecoded == [err |-> "not called", bytes |-> <<>>]

HexIdle == hexBytes = <<>> /\ hexString = <<>> /\ hexResult = NotDecoded

TokenIdle == adminKey = <<>> /\ tokenResult = NotCalled /\ issued = <<>> /\ HexIdle

ParseIdle == data = <<>> /\ parsed = NotParsed

CmdIdle ==
    /\ cmd = NoCmd
    /\ key = <<>>
    /\ baseURL = <<>>
    /\ lookups = NotLookedUp
    /\ pc = "idle"
    /\ page = 0
    /\ all = <<>>
    /\ calls = <<>>
    /\ uploads = <<>>
    /\ ret = NoRet

TokenInit ==
    /\ adminKey \in SeqsUpTo(KeyChars, MaxKeyLen)
    /\ tokenResult = NotCalled
    /\ issued = <<>>
    /\ HexIdle
    /\ ParseIdle
    /\ CmdIdle
    /\ ConfigIdle

Issue(now, result) == [now |-> now, result |-> result]

\* GenerateToken(adminKey) called when the clock reads now
CallGenerateToken ==
    /\ Len(issued) < MaxIssues
    /\ \E now \in Times :
          /\ tokenResult' = GenerateToken(adminKey, now)
          /\ issued' = Append(issued, Issue(now, GenerateToken(adminKey, now)))
    /\ UNCHANGED <<adminKey, hexVars, parseVars, cmdVars, configVars>>

TokenNext == CallGenerateToken

SpecToken == TokenInit /\ [][TokenNext]_vars

\* The part of k after its first ":" (k has one).
AfterFirstColon(k) ==
    LET i == CHOOSE n \in 1..Len(k) : k[n] = ":" /\ \A j \in 1..(n - 1) : k[j] # ":"
    IN  SubSeq(k, i + 1, Len(k))

HasColon(k) == \E i \in 1..Len(k) : k[i] = ":"

\* C10: GenerateToken cuts the key at its first ":" only. A key with no ":"
\* fails with the bad-format error; a key whose part after the first ":" does
\* not hex-decode fails with the bad-secret error, which wraps the decode
\* error; neither returns a token.
C10_TokenErrors ==
    tokenResult # NotCalled =>
        /\ ~HasColon(adminKey) =>
               /\ tokenResult.err = "invalid admin key format"
               /\ tokenResult.token = NoToken
        /\ (HasColon(adminKey) /\ hexDecode(AfterFirstColon(adminKey)).err # NoErr) =>
               /\ tokenResult.err = "decoding secret"
               /\ tokenResult.cause = hexDecode(AfterFirstColon(adminKey)).err
               /\ tokenResult.token = NoToken

\* A key with two ":" whose part after the first does not decode, though the
\* part after the last would: it was refused as a bad secret.
C10_Witness ==
    /\ tokenResult # NotCalled
    /\ adminKey = <<"k", ":", ":", "a">> \o <<>>
    /\ tokenResult.err = "decoding secret"

\* The part of k before its first ":" (k has one).
BeforeFirstColon(k) ==
    LET i == CHOOSE n \in 1..Len(k) : k[n] = ":" /\ \A j \in 1..(n - 1) : k[j] # ":"
    IN  SubSeq(k, 1, i - 1)

\* The hex digits, as characters
HexDigits ==
    {"0", "1", "2", "3", "4", "5", "6", "7", "8", "9",
     "a", "b", "c", "d", "e", "f", "A", "B", "C", "D", "E", "F"}

Colons(k) == {i \in 1..Len(k) : k[i] = ":"}

\* k is <id>:<hex-secret>: one ":" in all, and after it an even number of
\* characters, all hex digits (no character is as good as any even number).
IsIdColonHexSecret(k) ==
    /\ Cardinality(Colons(k)) = 1
    /\ \E i \in Colons(k) :
          /\ (Len(k) - i) % 2 = 0
          /\ \A j \in (i + 1)..Len(k) : k[j] \in HexDigits

\* C11: GenerateToken returns a token exactly for the keys of the form
\* <id>:<hex-secret> with one ":" and an even-length hex secret; for every
\* other key it returns an error and no token.
C11_TokenOnlyForWellFormedKey ==
    tokenResult # NotCalled =>
        /\ tokenResult.err = NoErr <=> IsIdColonHexSecret(adminKey)
        /\ tokenResult.err # NoErr => tokenResult.token = NoToken
        /\ tokenResult.err = NoErr => tokenResult.token # NoToken

\* A key with one ":" and a secret of two hex digits, one of either case,
\* got a token.
C11_Witness ==
    /\ adminKey = <<"k", ":", "a", "F">> \o <<>>
    /\ tokenResult.err = NoErr
    /\ tokenResult.token.signedWith = <<175>>


(***************************************************************************)
(* hexDecode on the hex encodings of a few bytes                           *)
(***************************************************************************)

MaxBytes == 2

\* The bytes encoded: every digit in either place, and bytes whose two
\* digits differ.
Bytes ==
    {17 * n : n \in 0..15} \cup {1, 16, 15, 240, 154, 169, 171, 186, 239, 254}

LowerDigits == <<"0", "1", "2", "3", "4", "5", "6", "7", "8", "9", "a", "b", "c", "d", "e", "f">>
UpperDigits == <<"0", "1", "2", "3", "4", "5", "6", "7", "8", "9", "A", "B", "C", "D", "E", "F">>

\* The hex encoding of the bytes bs with the digits ds: two digits a byte,
\* the high four bits first.
RECURSIVE hexEncode(_, _)
hexEncode(bs, ds) ==
    IF bs = <<>> THEN <<>>
    ELSE <<ds[(Head(bs) \div 16) + 1], ds[(Head(bs) % 16) + 1]>> \o hexEncode(Tail(bs), ds)

HexInit ==
    /\ hexBytes \in SeqsUpTo(Bytes, MaxBytes)
    /\ hexString \in {hexEncode(hexBytes, LowerDigits), hexEncode(hexBytes, UpperDigits)}
    /\ hexResult = NotDecoded
    /\ adminKey = <<>> /\ tokenResult = NotCalled /\ issued = <<>>
    /\ ParseIdle
    /\ CmdIdle
    /\ ConfigIdle

CallHexDecode ==
    /\ hexResult = NotDecoded
    /\ hexResult' = hexDecode(hexString)
    /\ UNCHANGED <<adminKey, tokenResult, issued, hexBytes, hexString, parseVars, cmdVars, configVars>>

HexNext == CallHexDecode

SpecHex == HexInit /\ [][HexNext]_vars

\* C20: hexDecode of the hex encoding of any bytes, in lower-case or in
\* upper-case digits, returns those bytes and no error: one byte for every
\* two characters.
C20_HexRoundTrip ==
    hexResult # NotDecoded =>
        /\ hexResult.err = NoErr
        /\ hexResult.bytes = hexBytes
        /\ 2 * Len(hexResult.bytes) = Len(hexString)

\* The bytes AB 0F from "AB0F"
C20_Witness ==
    /\ hexString = <<"A", "B", "0", "F">>
    /\ hexBytes = <<171, 15>>
    /\ hexResult.err = NoErr
    /\ hexResult.bytes = <<171, 15>>

(***************************************************************************)
(* hexDecode on every string over the characters at the ends of the digit  *)
(* ranges and next to them                                                 *)
(***************************************************************************)

MaxHexLen == 3

HexChars == {"/", "0", "9", ":", "@", "A", "F", "G", "_", "a", "f", "g"}

HexAnyInit ==
    /\ hexBytes = <<>>
    /\ hexString \in SeqsUpTo(HexChars, MaxHexLen)
    /\ hexResult = NotDecoded
    /\ adminKey = <<>> /\ tokenResult = NotCalled /\ issued = <<>>
    /\ ParseIdle
    /\ CmdIdle
    /\ ConfigIdle

SpecHexAny == HexAnyInit /\ [][HexNext]_vars

\* C21: hexDecode(s) fails if and only if the length of s is odd or some
\* character of s is no hex digit; otherwise, the empty string included, it
\* returns no error and half as many bytes as s has characters.
C21_HexDecodeFailsIff ==
    hexResult # NotDecoded =>
        /\ hexResult.err # NoErr <=>
               \/ Len(hexString) % 2 = 1
               \/ \E i \in 1..Len(hexString) : hexString[i] \notin HexDigits
        /\ hexResult.err = NoErr => 2 * Len(hexResult.bytes) = Len(hexString)
        /\ hexResult.err # NoErr => hexResult.bytes = <<>>

\* An even number of characters, the second of them next after the digits
C21_Witness ==
    /\ hexString = <<"9", "g">>
    /\ hexResult # NotDecoded
    /\ hexResult.err = "invalid hex character"

(***************************************************************************)
(* Parse on every document made of a few pieces                            *)
(***************************************************************************)

MaxChunks == 5

\* The pieces documents are made of: the delimiter, a line feed, a letter, a
\* blank, a carriage return, a metadata line, and a delimiter line with a
\* blank at its end.
Chunks ==
    {Delimiter, <<LF>>, <<"a">>, <<" ">>, <<CR>>, TitleLine \o <<LF>>,
     Delimiter \o <<" ", LF>>}

RECURSIVE Concat(_)
Concat(cs) == IF cs = <<>> THEN <<>> ELSE Head(cs) \o Concat(Tail(cs))

Documents == {Concat(cs) : cs \in SeqsUpTo(Chunks, MaxChunks)}

ParseInit ==
    /\ data \in Documents
    /\ parsed = NotParsed
    /\ TokenIdle
    /\ CmdIdle
    /\ ConfigIdle

CallParse ==
    /\ parsed = NotParsed
    /\ \E strict \in BOOLEAN : parsed' = Parse(data, strict)
    /\ UNCHANGED <<data, tokenVars, cmdVars, configVars>>

ParseNext == CallParse

SpecParse == ParseInit /\ [][ParseNext]_vars

\* The first line of d as the document has it: the text before the first
\* line feed (d is not empty).
FirstLine(d) == IF Index(d, LF) = 0 THEN d ELSE SubSeq(d, 1, Index(d, LF) - 1)

\* The document has a first line and it is the delimiter.
OpensFrontmatter(d) == d # <<>> /\ TrimSpace(FirstLine(d)) = Delimiter

\* The text of d after its first line feed.
AfterFirstLine(d) == IF Index(d, LF) = 0 THEN <<>> ELSE SubSeq(d, Index(d, LF) + 1, Len(d))

\* Some line of d is the delimiter.
RECURSIVE HasDelimiterLine(_)
HasDelimiterLine(d) ==
    /\ d # <<>>
    /\ \/ TrimSpace(FirstLine(d)) = Delimiter
       \/ HasDelimiterLine(AfterFirstLine(d))

\* C3: a document whose first line is not the delimiter parses to empty
\* metadata and a body equal to the whole document.
C3_NoFrontmatterBodyIsInput ==
    (parsed # NotParsed /\ ~OpensFrontmatter(data)) =>
        /\ parsed.err = NoErr
        /\ parsed.content.Frontmatter = EmptyFrontmatter
        /\ parsed.content.Markdown = data

\* C4: a document that opens a frontmatter block and ends without a closing
\* delimiter line makes Parse fail (with whatever error) and return no content.
C4_UnterminatedFails ==
    (parsed # NotParsed /\ OpensFrontmatter(data) /\ ~HasDelimiterLine(AfterFirstLine(data))) =>
        /\ parsed.err # NoErr
        /\ parsed.content = NoContent


(***************************************************************************)
(* cmd: the list commands, the get-by-identifier helpers and the tags'     *)
(* create, update and delete, against a server that may answer anything    *)
(***************************************************************************)

MaxCalls == 3

Statuses == {200, 399, 400, 404, 500}

Messages == {"Not found", "Other"}

ErrorFields ==
    {<<"absent">>, <<"bad">>, <<"arr">>, <<"arr", "Not found">>, <<"arr", "Not found", "Other">>}

\* The items one page may hold, in the order it holds them.
PageItems == {<<>>, <<"p1", "p2">>, <<"p3">>}

NextValues == {0, 1, 2}

Bodies ==
    {Body("text", <<"absent">>, <<"absent">>, NextAbsent),
     Body("null", <<"absent">>, <<"absent">>, NextAbsent),
     Body("array", <<"absent">>, <<"absent">>, NextAbsent),
     Body("object", <<"absent">>, <<"bad">>, NextAbsent),
     Body("object", <<"absent">>, <<"arr", "p1">>, NextBad),
     Body("object", <<"absent">>, <<"arr", "p1">>, NextAbsent),
     Body("object", <<"arr", "Not found">>, <<"arr", "p1", "p2">>, NextInt(0))}
    \cup {Body("object", e, <<"absent">>, NextAbsent) : e \in ErrorFields}
    \cup {Body("object", <<"absent">>, <<"arr">> \o items, NextInt(n)) :
              items \in PageItems, n \in NextValues}

\* What the network may do with a request: fail, answer and fail while the
\* body is read, or answer. Every body comes with the last status that is no
\* error and with the first that is one; 404 and 500 come with the server's
\* "Not found" and with a body that is not JSON.
NetOutcomes ==
    {NetError}
    \cup {NetReadErr(st) : st \in Statuses}
    \cup {NetResponse(st, b) : st \in {200, 400}, b \in Bodies}
    \cup {NetResponse(404, Body("object", <<"arr", "Not found">>, <<"absent">>, NextAbsent)),
          NetResponse(500, Body("text", <<"absent">>, <<"absent">>, NextAbsent))}
    \cup {NetResponse(399, Body("text", <<"absent">>, <<"absent">>, NextAbsent)),
          NetResponse(399, Body("object", <<"arr", "Not found">>, <<"arr", "p1", "p2">>, NextInt(0)))}

\* What the network does with the requests of posts and pages create,
\* update and delete: fail, answer with two items, with no item, with a body
\* that is not JSON, or with the server's "Not found".
ContentOutcomes ==
    {NetError,
     NetResponse(200, Body("object", <<"absent">>, <<"arr", "p1", "p2">>, NextInt(0))),
     NetResponse(200, Body("object", <<"absent">>, <<"arr">>, NextInt(0))),
     NetResponse(200, Body("text", <<"absent">>, <<"absent">>, NextAbsent)),
     NetResponse(404, Body("object", <<"arr", "Not found">>, <<"absent">>, NextAbsent))}

\* strings.TrimSuffix(s, "/")
TrimSlash(s) == IF s # <<>> /\ s[Len(s)] = "/" THEN SubSeq(s, 1, Len(s) - 1) ELSE s

\* NewClient(cfg): the URL without one trailing slash, and the key
NewClient(cfg) == [baseURL |-> TrimSlash(cfg.URL), key |-> cfg.Key]

\* "/ghost/api/admin", what is put between baseURL and the path (client.go:56)
APIPath == <<"/", "ghost", "/", "api", "/", "admin">>

\* The URL prefix of the request kept in the client
ClientRebased == baseURL' = baseURL \o APIPath /\ key' = key

\* doRequest and UploadImage read c.baseURL and c.key and assign neither
ClientKept == UNCHANGED <<baseURL, key>>

\* The configurations a client is made of. The admin keys: a good one, one
\* with no ":", one whose secret is not hex; the URLs: with one, with no and
\* with two trailing slashes.
ClientConfigs ==
    {Config(<<"h", "/">>, <<"k", ":", "a", "F">>),
     Config(<<"h">>, <<"k", "a", "F">>),
     Config(<<"h", "/", "/">>, <<"k", ":", "g", "a">>)}

ListResources == {"posts", "pages", "tags", "members"}
LookupResources == {"posts", "pages", "tags", "members", "tiers", "newsletters", "users"}

\* --limit, --page and members' --filter as given on the command line
LimitFlags == {15, 5}
PageFlags == {1, 2}
FilterFlags == {"", "status:free"}

Ids == {"abc", "50%"}

HasPageFlag(res) == res \in {"posts", "pages"}

\* The fields tags update is given on the command line: none, or --slug
UpdateFlags == {<<>>, <<"slug">>}

Cmd(name, res, isAll, limit, pageFlag, filter, id, updates) ==
    [name |-> name, res |-> res, all |-> isAll, limit |-> limit, page |-> pageFlag,
     filter |-> filter, id |-> id, updates |-> updates]

DefaultLimit == 15
DefaultPage == 1

ListCommands ==
    {c \in [name : {"list"}, res : ListResources, all : BOOLEAN, limit : LimitFlags,
            page : PageFlags, filter : FilterFlags, id : {""}, updates : {<<>>}] :
        /\ (HasPageFlag(c.res) \/ c.page = DefaultPage)
        /\ (c.res = "members" \/ c.filter = "")}

LookupCommands ==
    {Cmd("lookup", res, FALSE, DefaultLimit, DefaultPage, "", id, <<>>) :
        res \in LookupResources, id \in Ids}

\* tags create <name>, tags update <id-or-slug>, tags delete <id-or-slug>
WriteCommands ==
    {Cmd("create", "tags", FALSE, DefaultLimit, DefaultPage, "", "", <<>>)}
    \cup {Cmd("update", "tags", FALSE, DefaultLimit, DefaultPage, "", id, u) :
              id \in Ids, u \in UpdateFlags}
    \cup {Cmd("delete", "tags", FALSE, DefaultLimit, DefaultPage, "", id, <<>>) : id \in Ids}

\* The file images upload is given: an image, a path with nothing at it, a
\* directory.
Files == {"image", "missing", "directory"}

\* --ref as given on the command line
RefFlags == {"", "r"}

\* images upload <file> [--ref r]; the file is the id, the ref the filter
UploadCommands ==
    {Cmd("upload", "images", FALSE, DefaultLimit, DefaultPage, ref, file, <<>>) :
        file \in Files, ref \in RefFlags}

Commands == ListCommands \cup LookupCommands \cup WriteCommands \cup UploadCommands

\* The bodies an upload may be answered with
UploadBodies ==
    {Body("text", <<"absent">>, <<"absent">>, NextAbsent),
     Body("null", <<"absent">>, <<"absent">>, NextAbsent),
     Body("array", <<"absent">>, <<"absent">>, NextAbsent),
     Body("object", <<"absent">>, <<"bad">>, NextAbsent),
     Body("object", <<"arr", "Not found">>, <<"arr", "img">>, NextAbsent)}
    \cup {Body("object", e, <<"absent">>, NextAbsent) : e \in ErrorFields}
    \cup {Body("object", <<"absent">>, <<"arr">> \o imgs, NextAbsent) :
              imgs \in {<<>>, <<"img">>, <<"img-no-url">>, <<"img-empty-url">>,
                        <<"img", "img-no-url">>, <<"img-empty-url", "img">>}}

UploadOutcomes ==
    {NetError}
    \cup {NetReadErr(st) : st \in Statuses}
    \cup {NetResponse(st, b) : st \in Statuses, b \in UploadBodies}

\* time.Now().Unix() at the n-th pipeline call of a command: a second apart.
TimeOfCall(n) == 1000 + n

\* A param of a query: set to v, or not set
Param(v) == <<v>>
NoParam == <<>>

Query(limit, pg, filter) == [limit |-> limit, page |-> pg, filter |-> filter]

NoNet == [kind |-> "none", status |-> 0, body |-> NoBody]

\* The record of a pipeline call: what was asked, what doRequest did and
\* returned, and what the network answered if it was asked.
Call(method, res, id, query, r, net) ==
    [method |-> method, res |-> res, id |-> id, query |-> query,
     attempts |-> r.attempts, token |-> r.token, err |-> r.err, data |-> r.data,
     net |-> IF r.attempts = 0 THEN NoNet ELSE net]

\* The record of a call together with the JSON object it was given to send
Sent(method, res, id, payload, r, net) ==
    [method |-> method, res |-> res, id |-> id, query |-> NoQuery, payload |-> payload,
     attempts |-> r.attempts, token |-> r.token, err |-> r.err, data |-> r.data,
     net |-> IF r.attempts = 0 THEN NoNet ELSE net]

Ret(err, printed, out) == [err |-> err, printed |-> printed, out |-> out]

CmdInit ==
    /\ cmd \in Commands
    /\ \E cfg \in ClientConfigs : baseURL = NewClient(cfg).baseURL /\ key = NewClient(cfg).key
    /\ lookups = NotLookedUp
    /\ pc = "start"
    /\ page = 0
    /\ all = <<>>
    /\ calls = <<>>
    /\ uploads = <<>>
    /\ ret = NoRet
    /\ TokenIdle
    /\ ParseIdle
    /\ ConfigIdle

\* The walk started one page late
FirstPageLate == 1 + 1

\* page := 1
FirstPage == 1

\* The walk asking for pages of --limit items
AllLimitOfFlag == cmd.limit

\* params.Set("limit", "100")
AllLimit == 100

\* The cursor after a page, never moving
NextCursorStay(cur, next) == cur

\* page = resp.Meta.Pagination.Next
NextCursor(cur, next) == next

\* The loop ends on the page count
LoopEndsBounded(next, n) == next = 0 \/ n >= 2

\* if resp.Meta.Pagination.Next == 0 { break }; n pages fetched so far
LoopEnds(next, n) == next = 0

\* allPosts = resp.Posts: the accumulator replaced
AppendItemsReplace(acc, items) == items

\* allPosts = append(allPosts, resp.Posts...)
AppendItems(acc, items) == acc \o items

\* The filter of members' list: set when --filter is given.
ListFilter(c) == IF c.res = "members" /\ c.filter # "" THEN <<"flag", c.filter>> ELSE <<>>

\* The loop left on an error, the pages fetched so far printed
WalkFailsPrinting(err, acc) == Ret(err, TRUE, acc)

\* if err != nil { return err }: the command returns the error and prints
\* nothing of acc, the items of the pages before.
WalkFails(err, acc) == Ret(err, FALSE, <<>>)

\* One turn of the --all loop after its call returned r: cur and acc are the
\* cursor and the accumulator of the turn, n the pages asked for so far.
ListAllTurn(cur, acc, r, resp, n) ==
    IF r.err # Nil
    THEN /\ ret' = WalkFails(r.err, acc)
         /\ pc' = "done"
         /\ page' = cur
         /\ all' = acc
    ELSE IF resp.err
    THEN /\ ret' = WalkFails(Error("parsing response", <<>>, NoBody, 0, NoErr), acc)
         /\ pc' = "done"
         /\ page' = cur
         /\ all' = acc
    ELSE /\ all' = AppendItems(acc, resp.items)
         /\ IF LoopEnds(resp.next, n)
            THEN /\ pc' = "done"
                 /\ page' = cur
                 /\ ret' = Ret(Nil, TRUE, AppendItems(acc, resp.items))
            ELSE /\ pc' = "walk"
                 /\ page' = NextCursor(cur, resp.next)
                 /\ ret' = ret

ListAllCall(cur, acc, r, net) ==
    /\ calls' = Append(calls, Call("GET", cmd.res, "", Query(Param(AllLimit), Param(cur), ListFilter(cmd)), r, net))
    /\ ListAllTurn(cur, acc, r, UnmarshalList(r.data), Len(calls) + 1)

\* run<Resource>List with --all: one turn of the loop, from the request for
\* the cursor's page to the break, the return or the next turn.
ListAllStep ==
    /\ cmd.name = "list" /\ cmd.all
    /\ pc \in {"start", "walk"}
    /\ Len(calls) < MaxCalls
    /\ \E net \in NetOutcomes :
        ListAllCall(IF pc = "start" THEN FirstPage ELSE page,
                    IF pc = "start" THEN <<>> ELSE all,
                    Get(key, "", TimeOfCall(Len(calls)), net), net)
    /\ ClientKept
    /\ UNCHANGED <<cmd, lookups, uploads, tokenVars, parseVars, configVars>>

ListOnceCall(q, r, resp, net) ==
    /\ calls' = Append(calls, Call("GET", cmd.res, "", q, r, net))
    /\ pc' = "done"
    /\ IF r.err # Nil
       THEN ret' = Ret(r.err, FALSE, <<>>) /\ all' = all
       ELSE IF resp.err
       THEN /\ ret' = Ret(Error("parsing response", <<>>, NoBody, 0, NoErr), FALSE, <<>>)
            /\ all' = all
       ELSE all' = resp.items /\ ret' = Ret(Nil, TRUE, resp.items)

ListOnceGet(q, r, net) == ListOnceCall(q, r, UnmarshalList(r.data), net)

\* run<Resource>List without --all: one request with the flags' values
\* (tags and members have no --page and send none).
ListOnce ==
    /\ cmd.name = "list" /\ ~cmd.all
    /\ pc = "start"
    /\ \E net \in NetOutcomes :
        ListOnceGet(Query(Param(cmd.limit), IF HasPageFlag(cmd.res) THEN Param(cmd.page) ELSE NoParam,
                          ListFilter(cmd)),
                    Get(key, "", TimeOfCall(Len(calls)), net), net)
    /\ ClientKept
    /\ UNCHANGED <<cmd, lookups, uploads, page, tokenVars, parseVars, configVars>>

\* The filter of the second call: by email for members, by slug otherwise.
FilterField(res) == IF res = "members" THEN "email" ELSE "slug"

IsContentWrite(c) == c.name \in {"create", "update", "delete"} /\ c.res \in {"posts", "pages"}

\* The outcomes the requests of the command are tried with
Outcomes == IF IsContentWrite(cmd) THEN ContentOutcomes ELSE NetOutcomes

\* The commands that start with get<Resource>
StartsWithLookup(c) == c.name \in {"lookup", "update", "delete"}

\* Where a command is once get<Resource> returned the resource: a lookup is
\* done, update and delete go on with it.
Found(c) == IF c.name = "lookup" THEN "done" ELSE "found"

\* The first call's failure returned to the caller
FirstFailureSurfaces(r) == r.err # Nil

\* get<Resource>: a failure of the by-ID call is not returned.
FirstFailureReturns(r) == FALSE

LookupFirstCall(r, resp, net) ==
    /\ calls' = Append(calls, Call("GET", cmd.res, cmd.id, NoQuery, r, net))
    /\ IF r.err = Nil /\ ~resp.err /\ Len(resp.items) > 0
       THEN pc' = Found(cmd) /\ ret' = Ret(Nil, FALSE, <<resp.items[1]>>)
       ELSE IF FirstFailureReturns(r)
       THEN pc' = "done" /\ ret' = Ret(r.err, FALSE, <<>>)
       ELSE pc' = "second" /\ ret' = ret

LookupFirstGet(r, net) == LookupFirstCall(r, UnmarshalList(r.data), net)

\* get<Resource>(client, id), to the end of its first call: the by-ID GET,
\* whose result is returned when it succeeds, decodes and holds an item.
LookupFirst ==
    /\ StartsWithLookup(cmd)
    /\ pc = "start"
    /\ \E net \in Outcomes :
        LookupFirstGet(Get(key, cmd.id, TimeOfCall(Len(calls)), net), net)
    /\ ClientKept
    /\ UNCHANGED <<cmd, lookups, uploads, page, all, tokenVars, parseVars, configVars>>

LookupSecondCall(r, resp, net) ==
    /\ calls' = Append(calls, Call("GET", cmd.res, "",
                                   Query(NoParam, NoParam, <<FilterField(cmd.res), cmd.id>>),
                                   r, net))
    /\ pc' = IF r.err = Nil /\ ~resp.err /\ Len(resp.items) > 0 THEN Found(cmd) ELSE "done"
    /\ ret' = IF r.err # Nil THEN Ret(r.err, FALSE, <<>>)
              ELSE IF resp.err
              THEN Ret(Error("parsing response", <<>>, NoBody, 0, NoErr), FALSE, <<>>)
              ELSE IF Len(resp.items) = 0
              THEN Ret(Error("not found", <<>>, NoBody, 0, NoErr), FALSE, <<>>)
              ELSE Ret(Nil, FALSE, <<resp.items[1]>>)

LookupSecondGet(r, net) == LookupSecondCall(r, UnmarshalList(r.data), net)

\* get<Resource>, its second call: the collection filtered by slug (by email
\* for members); its error, a decode error or "not found" is the result.
LookupSecond ==
    /\ StartsWithLookup(cmd)
    /\ pc = "second"
    /\ \E net \in Outcomes : LookupSecondGet(Get(key, "", TimeOfCall(Len(calls)), net), net)
    /\ ClientKept
    /\ UNCHANGED <<cmd, lookups, uploads, page, all, tokenVars, parseVars, configVars>>

\* What create and update make of the response to their write: its error, a
\* decode error, "no tag in response", or the first tag, printed.
WrittenCall(method, id, r, resp, net) ==
    /\ calls' = Append(calls, Call(method, cmd.res, id, NoQuery, r, net))
    /\ pc' = "done"
    /\ ret' = IF r.err # Nil THEN Ret(r.err, FALSE, <<>>)
              ELSE IF resp.err
              THEN Ret(Error("parsing response", <<>>, NoBody, 0, NoErr), FALSE, <<>>)
              ELSE IF Len(resp.items) = 0
              THEN Ret(Error("no tag in response", <<>>, NoBody, 0, NoErr), FALSE, <<>>)
              ELSE Ret(Nil, TRUE, <<resp.items[1]>>)

Written(method, id, r, net) == WrittenCall(method, id, r, UnmarshalList(r.data), net)

\* runTagsCreate: one POST to the collection.
TagsCreate ==
    /\ cmd.name = "create"
    /\ pc = "start"
    /\ \E net \in NetOutcomes :
        Written("POST", "", Post(key, "", TimeOfCall(Len(calls)), net), net)
    /\ ClientKept
    /\ UNCHANGED <<cmd, lookups, uploads, page, all, tokenVars, parseVars, configVars>>

\* runTagsUpdate after getTag returned the tag: with no field to update it
\* fails before any request, else one PUT to the tag by its ID.
TagsUpdate ==
    /\ cmd.name = "update"
    /\ pc = "found"
    /\ IF cmd.updates = <<>>
       THEN /\ ret' = Ret(Error("no updates specified", <<>>, NoBody, 0, NoErr), FALSE, <<>>)
            /\ pc' = "done"
            /\ calls' = calls
       ELSE \E net \in NetOutcomes :
                Written("PUT", ret.out[1], Put(key, ret.out[1], TimeOfCall(Len(calls)), net), net)
    /\ ClientKept
    /\ UNCHANGED <<cmd, lookups, uploads, page, all, tokenVars, parseVars, configVars>>

DeletedCall(existing, r, net) ==
    /\ calls' = Append(calls, Call("DELETE", cmd.res, existing, NoQuery, r, net))
    /\ pc' = "done"
    /\ ret' = IF r.err # Nil THEN Ret(r.err, FALSE, <<>>) ELSE Ret(Nil, TRUE, <<existing>>)

\* runTagsDelete after getTag returned the tag: one DELETE of the tag by its
\* ID; the response's body is not read.
TagsDelete ==
    /\ cmd.name = "delete"
    /\ pc = "found"
    /\ \E net \in NetOutcomes :
        DeletedCall(ret.out[1], Delete(key, ret.out[1], TimeOfCall(Len(calls)), net), net)
    /\ ClientKept
    /\ UNCHANGED <<cmd, lookups, uploads, page, all, tokenVars, parseVars, configVars>>

\* The record of a call of UploadImage: the file, the fields of the form
\* beside it, what the call did and returned, what the network answered if
\* it was asked.
Upload(file, ref, r, net) ==
    [file |-> file, form |-> IF ref # "" THEN <<"ref", ref>> ELSE <<>>,
     attempts |-> r.attempts, token |-> r.token, err |-> r.err, url |-> r.url,
     opens |-> r.opens,
     net |-> IF r.attempts = 0 THEN NoNet ELSE net]

ImagesUploadCall(r, net) ==
    /\ uploads' = Append(uploads, Upload(cmd.id, cmd.filter, r, net))
    /\ pc' = "done"
    /\ ret' = IF r.err # Nil THEN Ret(r.err, FALSE, <<>>) ELSE Ret(Nil, TRUE, <<r.url>>)

\* runImagesUpload: one call of UploadImage; its error is returned, its URL
\* printed.
ImagesUpload ==
    /\ cmd.name = "upload"
    /\ pc = "start"
    /\ \E net \in UploadOutcomes :
        ImagesUploadCall(UploadImage(key, cmd.id, cmd.filter, TimeOfCall(Len(calls)), net), net)
    /\ ClientKept
    /\ UNCHANGED <<cmd, lookups, page, all, calls, tokenVars, parseVars, configVars>>

Next ==
    \/ ImagesUpload
    \/ ListAllStep
    \/ ListOnce
    \/ LookupFirst
    \/ LookupSecond
    \/ TagsCreate
    \/ TagsUpdate
    \/ TagsDelete

Spec == CmdInit /\ [][Next]_vars

(***************************************************************************)
(* The claims about the pipeline, the walk and the lookups                 *)
(***************************************************************************)

IsWalk == cmd.name = "list" /\ cmd.all
IsLookup == cmd.name = "lookup"

\* What a response that was received says, read off the body itself.
ServedNext(c) ==
    IF c.net.body.syntax = "object" /\ c.net.body.next.tag = "int" THEN c.net.body.next.n ELSE 0

ServedItems(c) ==
    IF c.net.body.syntax = "object" /\ Head(c.net.body.list) = "arr"
    THEN Tail(c.net.body.list) ELSE <<>>

\* The call got a whole response with a status below 400.
Answered(c) == c.net.kind = "response" /\ c.net.status < 400

\* The call was answered with a page: a body the list decoder takes.
AnsweredPage(c) == Answered(c) /\ ~UnmarshalList(c.net.body).err

\* C1: in a fetch-all listing every call is a GET of the collection; the
\* first asks for page 1 and each later one for the next of the response
\* before it, which was not 0; a listing that completed ends on the one
\* response whose next is 0. So pages P1..Pk with only Pk reporting next = 0
\* take exactly k requests, and one page with next = 0 exactly one.
C1_WalkFollowsNext ==
    IsWalk =>
        /\ \A i \in 1..Len(calls) :
              /\ calls[i].method = "GET"
              /\ calls[i].res = cmd.res /\ calls[i].id = ""
              /\ calls[i].query.page = <<IF i = 1 THEN 1 ELSE ServedNext(calls[i - 1])>>
        /\ \A i \in 1..(Len(calls) - 1) :
              /\ calls[i].attempts = 1
              /\ AnsweredPage(calls[i])
              /\ ServedNext(calls[i]) # 0
        /\ (pc = "done" /\ ret.err = Nil) =>
              /\ calls[Len(calls)].attempts = 1
              /\ AnsweredPage(calls[Len(calls)])
              /\ ServedNext(calls[Len(calls)]) = 0

\* Three pages, the third the only one with next = 0: three requests.
C1_Witness ==
    /\ IsWalk /\ pc = "done" /\ ret.err = Nil
    /\ Len(calls) = 3
    /\ calls[2].query.page = <<2>>
    /\ calls[3].query.page = <<1>>

\* The body is an error envelope with at least one error item.
IsErrorEnvelope(b) == b.syntax = "object" /\ Head(b.errors) = "arr" /\ Len(b.errors) > 1

\* C2: a call whose response has a status of 400 or more fails with the
\* structured error (the items of the body, the first one's message first)
\* if and only if the body decodes as an error envelope with at least one
\* item; otherwise it fails with the generic error that carries the body as
\* received and the status.
C2_ErrorMapping ==
    \A i \in 1..Len(calls) :
        (calls[i].net.kind = "response" /\ calls[i].net.status >= 400) =>
            /\ calls[i].err # Nil
            /\ (calls[i].err.kind = "api") <=> IsErrorEnvelope(calls[i].net.body)
            /\ IsErrorEnvelope(calls[i].net.body) =>
                   /\ calls[i].err.Errors = Tail(calls[i].net.body.errors)
                   /\ calls[i].err.Errors[1] = calls[i].net.body.errors[2]
            /\ ~IsErrorEnvelope(calls[i].net.body) =>
                   /\ calls[i].err.kind = "API error"
                   /\ calls[i].err.body = calls[i].net.body
                   /\ calls[i].err.status = calls[i].net.status

\* A 404 with {"errors":[{"message":"Not found"}]} and then a 500 with a body
\* that is not JSON.
C2_Witness ==
    /\ Len(calls) = 2
    /\ calls[1].net = NetResponse(404, Body("object", <<"arr", "Not found">>, <<"absent">>, NextAbsent))
    /\ calls[1].err.kind = "api" /\ calls[1].err.Errors[1] = "Not found"
    /\ calls[2].net = NetResponse(500, Body("text", <<"absent">>, <<"absent">>, NextAbsent))
    /\ calls[2].err.kind = "API error" /\ calls[2].err.status = 500

\* The key makes a token: it has a ":" and what follows the first is hex.
KeyIsWellFormed(k) == HasColon(k) /\ hexDecode(AfterFirstColon(k)).err = NoErr

\* C5 as stated: every pipeline call makes exactly one network attempt.
C5_ExactlyOneAttempt == \A i \in 1..Len(calls) : calls[i].attempts = 1

\* C5, amended: every pipeline call makes at most one network attempt,
\* whatever its outcome, and exactly one unless it ended before sending (no
\* token for the key, or no request for the URL).
C5_AtMostOneAttempt ==
    \A wellFormed \in {KeyIsWellFormed(key)} :
        \A i \in 1..Len(calls) :
            /\ calls[i].attempts \in {0, 1}
            /\ calls[i].attempts = 1 <=> (wellFormed /\ ~BadEscape(calls[i].id))
            /\ calls[i].attempts = 0 =>
                   calls[i].err.kind \in {"generating token", "creating request"}

\* A GET and then a PUT whose one attempt failed in the network, and was not
\* made again.
C5_Witness ==
    /\ Len(calls) = 3
    /\ calls[1].method = "GET" /\ calls[1].net.kind = "error"
    /\ calls[1].attempts = 1 /\ calls[1].err.kind = "request failed"
    /\ calls[3].method = "PUT" /\ calls[3].net.kind = "error"
    /\ calls[3].attempts = 1 /\ calls[3].err.kind = "request failed"

\* What the second call of a lookup gives, read off its record.
SecondCallResult(c) ==
    IF c.err # Nil THEN Ret(c.err, FALSE, <<>>)
    ELSE IF UnmarshalList(c.net.body).err
    THEN Ret(Error("parsing response", <<>>, NoBody, 0, NoErr), FALSE, <<>>)
    ELSE IF ServedItems(c) = <<>>
    THEN Ret(Error("not found", <<>>, NoBody, 0, NoErr), FALSE, <<>>)
    ELSE Ret(Nil, FALSE, <<ServedItems(c)[1]>>)

\* C6: a get-by-identifier lookup of any resource makes at most two calls,
\* one after the other: the GET by ID, and, whenever that one failed, the GET
\* of the collection filtered by the identifier. The first call's failure is
\* not returned: the lookup returns what the second call gives.
C6_TwoStepLookup ==
    IsLookup =>
        /\ Len(calls) <= 2
        /\ Len(calls) >= 1 =>
              /\ calls[1].method = "GET" /\ calls[1].res = cmd.res
              /\ calls[1].id = cmd.id /\ calls[1].query = NoQuery
        /\ (Len(calls) >= 1 /\ calls[1].err # Nil) => pc = IF Len(calls) = 1 THEN "second" ELSE "done"
        /\ Len(calls) = 2 =>
              /\ calls[2].method = "GET" /\ calls[2].res = cmd.res /\ calls[2].id = ""
              /\ calls[2].query.filter = <<IF cmd.res = "members" THEN "email" ELSE "slug", cmd.id>>
              /\ pc = "done"
              /\ ret = SecondCallResult(calls[2])
        /\ pc = "done" => ret # NoRet

\* The by-ID call failed with the server's "Not found", the filtered call
\* found the resource.
C6_Witness ==
    /\ IsLookup /\ pc = "done" /\ Len(calls) = 2
    /\ calls[1].err.kind = "api"
    /\ ret.err = Nil /\ ret.out = <<"p1">>

\* The call failed, or its response does not decode as a page.
FailedPage(c) == c.err # Nil \/ UnmarshalList(c.net.body).err

\* C7: in a fetch-all listing, when the request for a page fails or its
\* response does not decode, that request is the last, the command returns
\* that error, and nothing of the pages before is printed.
C7_WalkAbortsOnFailure ==
    IsWalk =>
        \A i \in 1..Len(calls) :
            FailedPage(calls[i]) =>
                /\ i = Len(calls)
                /\ pc = "done"
                /\ ret.err = IF calls[i].err # Nil THEN calls[i].err
                             ELSE Error("parsing response", <<>>, NoBody, 0, NoErr)
                /\ ~ret.printed
                /\ ret.out = <<>>

\* The third request failed after two pages with items had been fetched.
C7_Witness ==
    /\ IsWalk /\ Len(calls) = 3 /\ pc = "done"
    /\ calls[3].err # Nil
    /\ Len(all) >= 3
    /\ ret.out = <<>>

\* C8: the fetch-all loop has no bound of its own. It has ended exactly when
\* the last call failed (or its response did not decode) or its response
\* reported next = 0; after any response with another next it asks for that
\* page, also when the page was asked for before.
C8_WalkDrivenByNext ==
    IsWalk =>
        /\ pc = "done" <=>
              /\ Len(calls) >= 1
              /\ \/ FailedPage(calls[Len(calls)])
                 \/ ServedNext(calls[Len(calls)]) = 0
        /\ pc = "walk" => page = ServedNext(calls[Len(calls)])
        /\ pc \in {"start", "walk", "done"}

\* The server sent the walk back to page 1 and the walk goes on.
C8_Witness ==
    /\ IsWalk /\ pc = "walk" /\ Len(calls) = 3
    /\ calls[1].query.page = <<1>>
    /\ calls[2].query.page = <<2>>
    /\ calls[3].query.page = <<1>>
    /\ page = 2

RECURSIVE ItemsOfPages(_)
ItemsOfPages(cs) ==
    IF cs = <<>> THEN <<>> ELSE ServedItems(Head(cs)) \o ItemsOfPages(Tail(cs))

\* C9: a fetch-all listing that completed prints the items of every page it
\* fetched, page after page in the order of arrival, each page's items in
\* the order received, with nothing dropped, moved or merged.
C9_WalkConcatenates ==
    (IsWalk /\ pc = "done" /\ ret.err = Nil) =>
        /\ ret.printed
        /\ ret.out = ItemsOfPages(calls)

\* The same page served twice, then another: its items are there twice.
C9_Witness ==
    /\ IsWalk /\ pc = "done" /\ ret.err = Nil
    /\ Len(calls) = 3
    /\ ret.out = <<"p1", "p2", "p1", "p2", "p3">>


(***************************************************************************)
(* The claims about the tokens GenerateToken issues                        *)
(***************************************************************************)

\* C12: every token GenerateToken issued has iat = the time of the call in
\* seconds, exp = iat + 300 (so exp - iat = 300), aud = "/admin/", and in its
\* header the part of the admin key before the ":" as kid.
C12_TokenClaims ==
    \A i \in 1..Len(issued) :
        issued[i].result.err = NoErr =>
            /\ issued[i].result.token.iat = issued[i].now
            /\ issued[i].result.token.exp = issued[i].result.token.iat + 300
            /\ issued[i].result.token.exp - issued[i].result.token.iat = 300
            /\ issued[i].result.token.aud = "/admin/"
            /\ issued[i].result.token.kid = BeforeFirstColon(adminKey)

\* A token issued at 1001 for the key k:aF
C12_Witness ==
    /\ adminKey = <<"k", ":", "a", "F">> \o <<>> \o <<>>
    /\ Len(issued) >= 1
    /\ issued[1].now = 1001
    /\ issued[1].result.err = NoErr
    /\ issued[1].result.token.exp = 1301
    /\ issued[1].result.token.kid = <<"k">>

(***************************************************************************)
(* The claims about the tokens on the requests, the successful responses   *)
(* and the uploads                                                         *)
(***************************************************************************)

\* The token made from the key k at time now
IsTokenOf(t, kid, secret, now) ==
    /\ t.iat = now
    /\ t.kid = kid
    /\ t.signedWith = secret

\* The id and the secret bytes of a key that has a colon (a key
\* without one signs nothing)
KeyIDOf(k) == IF HasColon(k) THEN BeforeFirstColon(k) ELSE <<>>

SecretOf(k) == IF HasColon(k) THEN hexDecode(AfterFirstColon(k)).bytes ELSE <<>>

\* C14: the token on the request of every pipeline call that was sent, page
\* requests, both calls of a lookup and uploads alike, was made from the
\* client's key at the time of that call, and no two calls of a command sent
\* the same token.
C14_TokenFreshPerCall ==
    \A kid \in {KeyIDOf(key)}, secret \in {SecretOf(key)} :
        /\ \A i \in 1..Len(calls) :
              calls[i].attempts = 1 =>
                  IsTokenOf(calls[i].token, kid, secret, TimeOfCall(i - 1))
        /\ \A i, j \in 1..Len(calls) :
              (i # j /\ calls[i].attempts = 1) => calls[i].token # calls[j].token
        /\ \A i \in 1..Len(uploads) :
              uploads[i].attempts = 1 =>
                  IsTokenOf(uploads[i].token, kid, secret, TimeOfCall(i - 1))

\* Three page requests, each with the token of its own second
C14_Witness ==
    /\ IsWalk /\ Len(calls) = 3
    /\ calls[1].token.iat = 1000
    /\ calls[2].token.iat = 1001
    /\ calls[3].token.iat = 1002
    /\ calls[3].token.exp = 1302

\* C15: a pipeline call answered with a status below 400 succeeds and
\* returns the body as it was received, whatever the body is: not JSON, a
\* page, an error envelope.
C15_SuccessReturnsBody ==
    \A i \in 1..Len(calls) :
        (calls[i].net.kind = "response" /\ calls[i].net.status < 400) =>
            /\ calls[i].err = Nil
            /\ calls[i].data = calls[i].net.body

\* A 399 whose body is an error envelope came back as it was.
C15_Witness ==
    /\ Len(calls) >= 1
    /\ calls[1].net.status = 399
    /\ IsErrorEnvelope(calls[1].net.body)
    /\ calls[1].err = Nil
    /\ calls[1].data = calls[1].net.body

\* The first item of "images" in the body has a url that is not empty.
HasImageURL(b) ==
    /\ b.syntax = "object"
    /\ Head(b.list) = "arr" /\ Len(b.list) > 1
    /\ b.list[2] = "img"

\* C16: after an upload response with a status below 400, UploadImage
\* returns the image's URL, and fails whenever the URL is absent from the
\* response or empty: an upload that succeeded has a URL that is not empty.
C16_UploadNeverEmptyURL ==
    \A i \in 1..Len(uploads) :
        (uploads[i].net.kind = "response" /\ uploads[i].net.status < 400) =>
            /\ HasImageURL(uploads[i].net.body) =>
                   uploads[i].err = Nil /\ uploads[i].url = "https://h/i.png"
            /\ ~HasImageURL(uploads[i].net.body) => uploads[i].err # Nil
            /\ uploads[i].err = Nil => uploads[i].url # ""


(***************************************************************************)
(* The claims about the parts Parse cuts a document into                   *)
(***************************************************************************)

WithoutCR(l) == IF l # <<>> /\ l[Len(l)] = CR THEN SubSeq(l, 1, Len(l) - 1) ELSE l

\* The lines of a document: the text between its line feeds, a carriage
\* return before the line feed being part of the line's end; what follows
\* the last line feed is a line if there is anything.
RECURSIVE LinesOf(_)
LinesOf(d) ==
    IF d = <<>> THEN <<>> ELSE <<WithoutCR(FirstLine(d))>> \o LinesOf(AfterFirstLine(d))

\* The lines, each followed by a newline
RECURSIVE WithNewlines(_)
WithNewlines(ls) == IF ls = <<>> THEN <<>> ELSE Head(ls) \o <<LF>> \o WithNewlines(Tail(ls))

IsExactDelimiter(l) == l = Delimiter
IsDelimiter(l) == TrimSpace(l) = Delimiter

\* The first line after line 1 that is exactly "---"; 0 if there is none.
FirstExactClose(ls) ==
    IF \E j \in 2..Len(ls) : IsExactDelimiter(ls[j])
    THEN CHOOSE j \in 2..Len(ls) :
             IsExactDelimiter(ls[j]) /\ \A m \in 2..(j - 1) : ~IsExactDelimiter(ls[m])
    ELSE 0

\* The first line after line 1 that is "---" between blanks; 0 if none.
FirstClose(ls) ==
    IF \E j \in 2..Len(ls) : IsDelimiter(ls[j])
    THEN CHOOSE j \in 2..Len(ls) : IsDelimiter(ls[j]) /\ \A m \in 2..(j - 1) : ~IsDelimiter(ls[m])
    ELSE 0

\* Parse cut the lines ls at line c: the lines before it (after the first)
\* are the metadata block, the lines after it the body, each with a newline.
SplitsAt(ls, c) ==
    /\ parsed.block = WithNewlines(SubSeq(ls, 2, c - 1))
    /\ parsed.err = NoErr => parsed.content.Markdown = WithNewlines(SubSeq(ls, c + 1, Len(ls)))

\* C17 as stated: a document whose first line is exactly "---" is cut at the
\* first later line that is exactly "---": the lines between are the
\* metadata block, that line is in neither part, the lines after it are the
\* body, each followed by a newline.
C17_ExactDelimiterSplits ==
    (/\ parsed # NotParsed
     /\ LinesOf(data) # <<>>
     /\ IsExactDelimiter(LinesOf(data)[1])
     /\ FirstExactClose(LinesOf(data)) # 0)
        => SplitsAt(LinesOf(data), FirstExactClose(LinesOf(data)))

\* C17, amended: a document whose first line is "---", blanks around it
\* aside, is cut at the first later line that is "---", blanks around it
\* aside: the lines between are the metadata block, that line is in neither
\* part, the lines after it are the body, each followed by a newline, in the
\* order of the document.
C17_DelimiterSplits ==
    (/\ parsed # NotParsed
     /\ LinesOf(data) # <<>>
     /\ IsDelimiter(LinesOf(data)[1])
     /\ FirstClose(LinesOf(data)) # 0)
        => SplitsAt(LinesOf(data), FirstClose(LinesOf(data)))

\* "---", the title, "--- " and a line of body: the block is the title line
\* and the body the last line.
C17_Witness ==
    /\ data = Delimiter \o <<LF>> \o TitleLine \o <<LF>> \o Delimiter \o <<" ", LF>> \o <<"a">>
    /\ parsed.err = NoErr
    /\ parsed.block = TitleLine \o <<LF>>
    /\ parsed.content.Frontmatter.Title = <<"H", "i">>
    /\ parsed.content.Markdown = <<"a", LF>>


\* b ends with a
IsSuffix(a, b) == Len(a) <= Len(b) /\ SubSeq(b, Len(b) - Len(a) + 1, Len(b)) = a

\* The line of ls with which Parse is in the body for good: the closing
\* line of the metadata block, line 1 when the first line opens none, and 0
\* when a block was opened and never closed.
BodyFrom(ls) ==
    IF ls = <<>> THEN 0
    ELSE IF IsDelimiter(ls[1]) THEN FirstClose(ls)
    ELSE 1

\* Some line of ls after line b is a delimiter line.
HasLaterDelimiter(ls, b) == \E j \in (b + 1)..Len(ls) : IsDelimiter(ls[j])

\* The lines of ls after line b are the end of the body, each as it is and
\* with its newline, and none of them is in the metadata block.
LaterLinesAreBody(ls, b) ==
    /\ IsSuffix(WithNewlines(SubSeq(ls, b + 1, Len(ls))), parsed.content.Markdown)
    /\ parsed.block = IF IsDelimiter(ls[1]) THEN WithNewlines(SubSeq(ls, 2, b - 1)) ELSE <<>>

\* C18: once Parse is in the body, after the closing line of the metadata
\* block or from the first line on when that opens no block, every later
\* line, the delimiter lines too, is body text: the body ends with all of
\* them in order, and the metadata block has none of them.
C18_BodyIsTerminal ==
    (parsed # NotParsed /\ parsed.err = NoErr /\ BodyFrom(LinesOf(data)) # 0)
        => LaterLinesAreBody(LinesOf(data), BodyFrom(LinesOf(data)))

\* Three delimiter lines: the first opens the block, the second closes it,
\* the third is the body.
C18_Witness ==
    /\ data = Delimiter \o <<LF>> \o Delimiter \o <<LF>> \o Delimiter
    /\ HasLaterDelimiter(LinesOf(data), BodyFrom(LinesOf(data)))
    /\ parsed.err = NoErr
    /\ parsed.block = <<>>
    /\ parsed.content.Markdown = Delimiter \o <<LF>>

\* C19: Parse of the empty input returns no error, and a content with empty
\* metadata, an empty body and empty HTML.
C19_EmptyInput ==
    (parsed # NotParsed /\ data = <<>>) =>
        /\ parsed.err = NoErr
        /\ parsed.content.Frontmatter = EmptyFrontmatter
        /\ parsed.content.Markdown = <<>>
        /\ parsed.content.HTML = <<>>

\* The empty input, parsed
C19_Witness ==
    /\ data = <<>>
    /\ parsed # NotParsed
    /\ parsed.err = NoErr
    /\ parsed.block = <<>>

(***************************************************************************)
(* C27                                                                     *)
(***************************************************************************)

GenerateTokenFailed(err) ==
    err.kind = "generating token" /\ err.cause \in {"invalid admin key format", "decoding secret"}

\* C27: with a key that makes no token every pipeline call and every upload
\* returns the token's error without a network attempt, the upload without
\* opening its file; and every request that was sent carries a token, made
\* from the client's key at the time of that call.
SentWithTokenOf(c, kid, secret, now) ==
    c.attempts > 0 =>
        /\ c.token # NoToken
        /\ c.token = SignedToken(kid, secret, now)

C27_NoRequestWithoutToken ==
    \A dec \in {IF HasColon(key) THEN hexDecode(AfterFirstColon(key)) ELSE NotDecoded} :
        IF HasColon(key) /\ dec.err = NoErr
        THEN /\ \A i \in 1..Len(calls) :
                    SentWithTokenOf(calls[i], BeforeFirstColon(key), dec.bytes, TimeOfCall(i - 1))
             /\ \A i \in 1..Len(uploads) :
                    SentWithTokenOf(uploads[i], BeforeFirstColon(key), dec.bytes,
                                    TimeOfCall(i - 1))
        ELSE /\ \A i \in 1..Len(calls) :
                    calls[i].attempts = 0 /\ GenerateTokenFailed(calls[i].err)
             /\ \A i \in 1..Len(uploads) :
                    /\ uploads[i].attempts = 0
                    /\ uploads[i].opens = 0
                    /\ GenerateTokenFailed(uploads[i].err)

\* An upload of a file that is not there, with a key whose secret is not
\* hex, ended on the key
C27_Witness ==
    /\ Len(uploads) = 1
    /\ key = <<"k", ":", "g", "a">>
    /\ uploads[1].file = "missing"
    /\ uploads[1].err.cause = "decoding secret"
    /\ uploads[1].opens = 0

\* A lookup with a key without ":" made its two calls without an attempt
C27_WitnessCalls ==
    /\ Len(calls) = 2
    /\ key = <<"k", "a", "F">>
    /\ calls[2].attempts = 0
    /\ calls[2].err.cause = "invalid admin key format"

\* A request was sent with its token
C27_WitnessSent ==
    /\ Len(calls) = 1
    /\ calls[1].attempts = 1
    /\ calls[1].token # NoToken

(***************************************************************************)
(* C30                                                                     *)
(***************************************************************************)

IsContentList == cmd.name = "list" /\ cmd.res \in {"posts", "pages"}

\* C30: a posts or pages listing with --all asks for page 1 first and for
\* 100 items in every request, whatever --limit and --page are; without
\* --all it makes one call, with --limit and --page as they were given.
C30_AllIgnoresLimitAndPage ==
    IsContentList =>
        IF cmd.all
        THEN \A i \in 1..Len(calls) :
                 /\ calls[i].query.limit = <<100>>
                 /\ i = 1 => calls[i].query.page = <<1>>
        ELSE /\ Len(calls) <= 1
             /\ pc = "done" => Len(calls) = 1
             /\ \A i \in 1..Len(calls) :
                    /\ calls[i].query.limit = <<cmd.limit>>
                    /\ calls[i].query.page = <<cmd.page>>

\* A walk with --limit 5 --page 2 asked for page 1 and then for the page
\* the server named, 100 items each
C30_Witness ==
    /\ IsContentList /\ cmd.all
    /\ cmd.limit = 5 /\ cmd.page = 2
    /\ Len(calls) = 2
    /\ calls[1].query.page = <<1>>
    /\ calls[2].query.limit = <<100>>

\* A listing without --all made its one request with --limit 5 --page 2
C30_WitnessOnce ==
    /\ IsContentList /\ ~cmd.all
    /\ pc = "done"
    /\ calls[1].attempts = 1
    /\ calls[1].query.limit = <<5>>
    /\ calls[1].query.page = <<2>>

(***************************************************************************)
(* posts and pages: create, update, delete                                 *)
(***************************************************************************)

\* A file argument: not given, a path with nothing at it, or a file that
\* holds data.
NoFileArg == [given |-> FALSE, exists |-> FALSE, data |-> <<>>]
MissingFile == [given |-> TRUE, exists |-> FALSE, data |-> <<>>]
FileOf(d) == [given |-> TRUE, exists |-> TRUE, data |-> d]

Markdown == <<"H", "i", LF>>

DocPlain == <<"#", LF>> \o Markdown
DocTitle == Delimiter \o <<LF>> \o TitleLine \o <<LF>> \o Delimiter \o <<LF>> \o Markdown
DocStatus == Delimiter \o <<LF>> \o StatusLine \o <<LF>> \o Delimiter \o <<LF>> \o Markdown
DocBoth ==
    Delimiter \o <<LF>> \o StatusLine \o <<LF>> \o TitleLine \o <<LF>> \o Delimiter \o <<LF>>
        \o Markdown
DocOther == Delimiter \o <<LF, "x", ":", LF>> \o Delimiter \o <<LF>> \o Markdown

ContentFiles == {MissingFile} \cup {FileOf(d) : d \in {DocPlain, DocTitle, DocStatus, DocBoth, DocOther}}

\* --status as given on the command line
StatusFlags == {<<>>, <<"d", "r", "a", "f", "t">>, <<"s", "c", "h", "e", "d", "u", "l", "e", "d">>}

Draft == <<"d", "r", "a", "f", "t">>

WriteCmd(name, res, id, file, status) ==
    [name |-> name, res |-> res, id |-> id, file |-> file, status |-> status]

ContentResources == {"posts", "pages"}

\* posts|pages create <file>, update <id-or-slug> [file], delete <id-or-slug>
ContentCommands ==
    {WriteCmd("create", res, "", f, st) :
        res \in ContentResources, f \in ContentFiles, st \in StatusFlags}
    \cup {WriteCmd("update", res, "abc", f, st) :
        res \in ContentResources, f \in {NoFileArg, MissingFile, FileOf(DocStatus), FileOf(DocTitle)},
        st \in StatusFlags}
    \cup {WriteCmd("delete", res, id, NoFileArg, <<>>) : res \in ContentResources, id \in Ids}

\* content.ParseFile(path): os.Open fails on a path with nothing at it, and
\* what is read is parsed.
ParseFile(file, strict) ==
    IF ~file.exists
    THEN [err |-> "opening file", content |-> NoContent, block |-> <<>>]
    ELSE Parse(file.data, strict)

\* m[k] = v of a Go map
Set(m, k, v) == (k :> v) @@ m

\* The status of a create that takes the frontmatter's over the flag's
CreateStatusFrontmatterFirst(fm, flag) ==
    IF fm.Status # <<>> THEN fm.Status ELSE IF flag # <<>> THEN flag ELSE Draft

\* part_001:366-373, pages.go:245-251
CreateStatus(fm, flag) ==
    IF flag # <<>> THEN flag ELSE IF fm.Status # <<>> THEN fm.Status ELSE Draft

\* The object runPostsCreate and runPagesCreate send: title, html and status
\* always. The fields they add for frontmatter the model's blocks never set
\* (slug, excerpt, tags, ...) and for --publish-at are never there.
CreatePayload(content, flag) ==
    Set(Set(Set(<<>>, "title", content.Frontmatter.Title), "html", content.HTML),
        "status", CreateStatus(content.Frontmatter, flag))

NoItemError == IF cmd.res = "posts" THEN "no post in response" ELSE "no page in response"

\* What create and update make of the response to their write
ContentWrittenCall(method, id, payload, r, resp, net) ==
    /\ calls' = Append(calls, Sent(method, cmd.res, id, payload, r, net))
    /\ pc' = "done"
    /\ ret' = IF r.err # Nil THEN Ret(r.err, FALSE, <<>>)
              ELSE IF resp.err
              THEN Ret(Error("parsing response", <<>>, NoBody, 0, NoErr), FALSE, <<>>)
              ELSE IF Len(resp.items) = 0
              THEN Ret(Error(NoItemError, <<>>, NoBody, 0, NoErr), FALSE, <<>>)
              ELSE Ret(Nil, TRUE, <<resp.items[1]>>)

ContentWritten(method, id, payload, r, net) ==
    ContentWrittenCall(method, id, payload, r, UnmarshalList(r.data), net)

ParseFileFailed ==
    /\ calls' = calls
    /\ pc' = "done"
    /\ ret' = Ret(Error("parsing file", <<>>, NoBody, 0, NoErr), FALSE, <<>>)

ContentCreateWith(p, net) ==
    IF p.err # NoErr THEN ParseFileFailed
    ELSE ContentWritten("POST", "", CreatePayload(p.content, cmd.status),
                        Post(key, "", TimeOfCall(Len(calls)), net), net)

\* runPostsCreate, runPagesCreate: the file is parsed, then one POST to the
\* collection.
ContentCreate ==
    /\ cmd.name = "create"
    /\ IsContentWrite(cmd)
    /\ pc = "start"
    /\ \E strict \in BOOLEAN, net \in Outcomes :
        ContentCreateWith(ParseFile(cmd.file, strict), net)
    /\ ClientKept
    /\ UNCHANGED <<cmd, lookups, uploads, page, all, tokenVars, parseVars, configVars>>

\* The updated_at field of an item of a response
UpdatedAtOf(item) == <<item, "updated_at">>

\* The write sent to what the user typed
WriteTargetTyped(c, existing) == c.id

\* part_001:498, 541, pages.go:351, 391: the path of the write is made of
\* existing.ID
WriteTarget(c, existing) == existing

\* part_001:453-477, pages.go:315-339: what a parsed file adds to the object
WithFile(post, content, flag) ==
    LET fm == content.Frontmatter
        titled == IF fm.Title # <<>> THEN Set(post, "title", fm.Title) ELSE post
        featured == Set(Set(titled, "html", content.HTML), "featured", FALSE)
    IN  IF fm.Status # <<>> /\ flag = <<>> THEN Set(featured, "status", fm.Status)
        ELSE featured

\* part_001:486-489, pages.go:343-345
WithStatusFlag(post, flag) == IF flag # <<>> THEN Set(post, "status", flag) ELSE post

\* part_001:440-442, pages.go:307-309
UpdatePayload(existing) == Set(<<>>, "updated_at", UpdatedAtOf(existing))

ContentUpdatePut(payload, net) ==
    ContentWritten("PUT", WriteTarget(cmd, ret.out[1]), payload,
                   Put(key, WriteTarget(cmd, ret.out[1]), TimeOfCall(Len(calls)), net), net)

ContentUpdateWith(p, net) ==
    IF p.err # NoErr THEN ParseFileFailed
    ELSE ContentUpdatePut(
             WithStatusFlag(WithFile(UpdatePayload(ret.out[1]), p.content, cmd.status),
                            cmd.status), net)

\* runPostsUpdate, runPagesUpdate after getPost, getPage returned the item:
\* the file, if one is given, is parsed, then one PUT to the item by its ID.
ContentUpdate ==
    /\ cmd.name = "update"
    /\ IsContentWrite(cmd)
    /\ pc = "found"
    /\ IF cmd.file.given
       THEN \E strict \in BOOLEAN, net \in Outcomes :
                ContentUpdateWith(ParseFile(cmd.file, strict), net)
       ELSE \E net \in Outcomes :
                ContentUpdatePut(WithStatusFlag(UpdatePayload(ret.out[1]), cmd.status), net)
    /\ ClientKept
    /\ UNCHANGED <<cmd, lookups, uploads, page, all, tokenVars, parseVars, configVars>>

ContentDeleted(existing, net) ==
    DeletedCall(existing, Delete(key, existing, TimeOfCall(Len(calls)), net), net)

\* runPostsDelete, runPagesDelete after getPost, getPage returned the item:
\* one DELETE of the item by its ID.
ContentDelete ==
    /\ cmd.name = "delete"
    /\ IsContentWrite(cmd)
    /\ pc = "found"
    /\ \E net \in Outcomes : ContentDeleted(WriteTarget(cmd, ret.out[1]), net)
    /\ ClientKept
    /\ UNCHANGED <<cmd, lookups, uploads, page, all, tokenVars, parseVars, configVars>>

WriteInit ==
    /\ cmd \in ContentCommands
    /\ \E cfg \in ClientConfigs : baseURL = NewClient(cfg).baseURL /\ key = NewClient(cfg).key
    /\ lookups = NotLookedUp
    /\ pc = "start"
    /\ page = 0
    /\ all = <<>>
    /\ calls = <<>>
    /\ uploads = <<>>
    /\ ret = NoRet
    /\ TokenIdle
    /\ ParseIdle
    /\ ConfigIdle

WriteNext ==
    \/ ContentCreate
    \/ LookupFirst
    \/ LookupSecond
    \/ ContentUpdate
    \/ ContentDelete

SpecWrite == WriteInit /\ [][WriteNext]_vars

(***************************************************************************)
(* C23                                                                     *)
(***************************************************************************)

IsCreate == cmd.name = "create" /\ IsContentWrite(cmd)

\* The status the frontmatter of the command's file gives: none when the
\* file does not open with a block, or the block has no status line.
FileStatus ==
    IF cmd.file.data \in {DocStatus, DocBoth} THEN Published ELSE <<>>

\* C23: the POST of posts create and pages create always has a status; it
\* is the --status flag's when that is given, else the frontmatter's when
\* that is not empty, else "draft".
C23_CreateStatus ==
    \A i \in 1..Len(calls) :
        (IsCreate /\ calls[i].method = "POST") =>
            /\ "status" \in DOMAIN calls[i].payload
            /\ calls[i].payload["status"] =
                   IF cmd.status # <<>> THEN cmd.status
                   ELSE IF FileStatus # <<>> THEN FileStatus
                   ELSE Draft

\* A create with the flag and a frontmatter status was sent with the flag's
C23_Witness ==
    /\ IsCreate
    /\ Len(calls) = 1
    /\ calls[1].attempts = 1
    /\ cmd.status # <<>>
    /\ FileStatus = Published
    /\ calls[1].payload["status"] = cmd.status

\* Creates with the frontmatter's status and with the default were sent
C23_WitnessFrontmatter ==
    /\ IsCreate
    /\ Len(calls) = 1
    /\ cmd.status = <<>>
    /\ calls[1].payload["status"] = Published

C23_WitnessDefault ==
    /\ IsCreate
    /\ Len(calls) = 1
    /\ cmd.status = <<>>
    /\ calls[1].payload["status"] = Draft

(***************************************************************************)
(* C24                                                                     *)
(***************************************************************************)

\* C24: no step of a command changes the base URL or the admin key its
\* client was made with, whether its calls succeed or fail.
C24_ClientNeverMutated == [][baseURL' = baseURL /\ key' = key]_vars

\* A tags update made its two GETs and its PUT, the first GET failing, with
\* the client as NewClient made it from a URL with a trailing slash.
C24_Witness ==
    /\ cmd.name = "update"
    /\ pc = "done"
    /\ Len(calls) = 3
    /\ calls[1].err # Nil
    /\ calls[3].method = "PUT"
    /\ calls[3].attempts = 1
    /\ baseURL = <<"h">>
    /\ key = <<"k", ":", "a", "F">>

\* An upload was sent
C24_WitnessUpload ==
    /\ Len(uploads) = 1
    /\ uploads[1].attempts = 1
    /\ baseURL = <<"h">>

(***************************************************************************)
(* C25                                                                     *)
(***************************************************************************)

IsWrite(c) == c.method \in {"PUT", "DELETE"}

\* The call is a GET that was answered with a list that holds an item
LookupSucceeded(c) ==
    /\ c.method = "GET"
    /\ c.err = Nil
    /\ AnsweredPage(c)
    /\ ServedItems(c) # <<>>

\* C25: in posts and pages update and delete a PUT or DELETE comes right
\* after a GET that succeeded with an item and after nothing else, goes to
\* that item's ID, and a PUT carries that item's updated_at; nothing follows
\* it. So no write is sent when the lookup fails.
C25_WriteFollowsLookup ==
    \A i \in 1..Len(calls) :
        IsWrite(calls[i]) =>
            /\ i > 1
            /\ i = Len(calls)
            /\ LookupSucceeded(calls[i - 1])
            /\ \A j \in 1..(i - 2) : calls[j].method = "GET" /\ ~LookupSucceeded(calls[j])
            /\ calls[i].id = Head(ServedItems(calls[i - 1]))
            /\ calls[i].method = "PUT" =>
                   /\ "updated_at" \in DOMAIN calls[i].payload
                   /\ calls[i].payload["updated_at"] = UpdatedAtOf(Head(ServedItems(calls[i - 1])))

\* An update that found the post by slug and sent its PUT to the ID found
C25_Witness ==
    /\ cmd.name = "update"
    /\ Len(calls) = 3
    /\ calls[3].method = "PUT"
    /\ calls[3].attempts = 1
    /\ calls[3].id = "p1"
    /\ calls[3].id # cmd.id
    /\ calls[3].payload["updated_at"] = UpdatedAtOf("p1")

\* A delete whose lookup failed twice ended without a write
C25_WitnessNoWrite ==
    /\ cmd.name = "delete"
    /\ pc = "done"
    /\ Len(calls) = 2
    /\ calls[2].attempts = 1
    /\ ret.err # Nil
    /\ \A i \in 1..Len(calls) : ~IsWrite(calls[i])

(***************************************************************************)
(* posts get and getPost on the same identifier and the same answers       *)
(***************************************************************************)

\* What a lookup did: the calls it made, and the error or the post it ended
\* with.
Looked(made, err, out) == [calls |-> made, err |-> err, out |-> out]

ByID(id, r, net) == Call("GET", "posts", id, NoQuery, r, net)

BySlug(id, r, net) ==
    Call("GET", "posts", "", Query(NoParam, NoParam, <<"slug", id>>), r, net)

\* What both make of a list call that returned data: a decode error, "post
\* not found" for no post, else the first post.
PostOf(made, resp) ==
    IF resp.err THEN Looked(made, Error("parsing response", <<>>, NoBody, 0, NoErr), <<>>)
    ELSE IF Len(resp.items) = 0
    THEN Looked(made, Error("not found", <<>>, NoBody, 0, NoErr), <<>>)
    ELSE Looked(made, Nil, <<resp.items[1]>>)

\* The call by slug, the same in both (part_001:265-279, 568-584)
PostBySlugOf(made, r) ==
    IF r.err # Nil THEN Looked(made, r.err, <<>>) ELSE PostOf(made, UnmarshalList(r.data))

PostBySlug(k, id, first, net) ==
    PostBySlugOf(<<first, BySlug(id, Get(k, "", TimeOfCall(1), net), net)>>,
                 Get(k, "", TimeOfCall(1), net))

getPostOf(k, id, r, resp, n1, n2) ==
    IF r.err = Nil /\ ~resp.err /\ Len(resp.items) > 0
    THEN Looked(<<ByID(id, r, n1)>>, Nil, <<resp.items[1]>>)
    ELSE PostBySlug(k, id, ByID(id, r, n1), n2)

getPostWith(k, id, r, n1, n2) == getPostOf(k, id, r, UnmarshalList(r.data), n1, n2)

\* getPost(client, idOrSlug), n1 and n2 being what the network does with the
\* call by ID and with the call by slug: the call by slug is made unless the
\* call by ID succeeded, decoded and held a post.
getPost(k, id, n1, n2) == getPostWith(k, id, Get(k, id, TimeOfCall(0), n1), n1, n2)

runPostsGetWith(k, id, r, n1, n2) ==
    IF r.err # Nil THEN PostBySlug(k, id, ByID(id, r, n1), n2)
    ELSE PostOf(<<ByID(id, r, n1)>>, UnmarshalList(r.data))

\* runPostsGet: the call by slug is made only when the call by ID returned
\* an error; a call by ID that succeeded is decoded and is the result.
runPostsGet(k, id, n1, n2) == runPostsGetWith(k, id, Get(k, id, TimeOfCall(0), n1), n1, n2)

GetCommands == {Cmd("get", "posts", FALSE, DefaultLimit, DefaultPage, "", id, <<>>) : id \in Ids}

GetInit ==
    /\ cmd \in GetCommands
    /\ \E cfg \in ClientConfigs : baseURL = NewClient(cfg).baseURL /\ key = NewClient(cfg).key
    /\ lookups = NotLookedUp
    /\ pc = "start"
    /\ page = 0
    /\ all = <<>>
    /\ calls = <<>>
    /\ uploads = <<>>
    /\ ret = NoRet
    /\ TokenIdle
    /\ ParseIdle
    /\ ConfigIdle

\* posts get and getPost, each run on the command's identifier against the
\* same two answers
CallLookups ==
    /\ pc = "start"
    /\ \E n1 \in NetOutcomes, n2 \in NetOutcomes :
        lookups' = [get |-> runPostsGet(key, cmd.id, n1, n2),
                    helper |-> getPost(key, cmd.id, n1, n2),
                    byID |-> n1, bySlug |-> n2]
    /\ pc' = "done"
    /\ ClientKept
    /\ UNCHANGED <<cmd, page, all, calls, uploads, ret, tokenVars, parseVars, configVars>>

GetNext == CallLookups

SpecGet == GetInit /\ [][GetNext]_vars

(***************************************************************************)
(* C26                                                                     *)
(***************************************************************************)

\* C26: posts get and getPost make the same requests and end with the same
\* post or both with an error, whatever the identifier and the answers.
C26_LookupsAgree ==
    lookups # NotLookedUp =>
        /\ lookups.get.calls = lookups.helper.calls
        /\ \/ lookups.get.err # Nil /\ lookups.helper.err # Nil
           \/ /\ lookups.get.err = Nil
              /\ lookups.helper.err = Nil
              /\ lookups.get.out = lookups.helper.out

\* The call by ID was answered 200 with no post and the call by slug would
\* be answered with one: posts get fails after one request, getPost finds
\* the post with a second.
C26_Diverged ==
    /\ lookups # NotLookedUp
    /\ Len(lookups.get.calls) = 1
    /\ lookups.get.calls[1].err = Nil
    /\ lookups.get.err # Nil
    /\ Len(lookups.helper.calls) = 2
    /\ lookups.helper.err = Nil

(***************************************************************************)
(* config.Load under every combination of flags, environment and files     *)
(***************************************************************************)

ProfileA == Config("a-url", "a-key")
ProfileB == Config("b-url", "b-key")

\* a profile somebody wrote without its url
ProfileNoURL == Config("", "a-key")

InstanceSets ==
    { NoInstances,
      [n \in {"a"} |-> ProfileA],
      [n \in {"a"} |-> ProfileNoURL],
      [n \in {"a", "b"} |-> IF n = "a" THEN ProfileA ELSE ProfileB] }

LegacyFields == { NoConfig, Config("old-url", "old-key"), Config("old-url", "") }

ConfigFiles ==
    {NoFile, BadFile} \cup
    { File("yaml", d, i, l.URL, l.Key) : d \in {"", "a", "c"}, i \in InstanceSets, l \in LegacyFields }

OldFiles == { NoFile, BadFile, File("yaml", "", NoInstances, "home-url", "home-key") }

Envs ==
    { Env(fu, fk, fp, eu, ek, ep) :
        fu \in {"", "flag-url"}, fk \in {"", "flag-key"}, fp \in {"", "a", "b"},
        eu \in {"", "env-url"}, ek \in {"", "env-key"}, ep \in {"", "b"} }

LoadInit ==
    /\ configFile \in ConfigFiles
    /\ oldFile \in OldFiles
    /\ loadEnv \in Envs
    /\ loaded = NotLoaded
    /\ saved = <<>>
    /\ TokenIdle
    /\ ParseIdle
    /\ CmdIdle

CallLoad ==
    /\ loaded = NotLoaded
    /\ loaded' = Load(loadEnv, configFile, oldFile)
    /\ UNCHANGED <<configFile, oldFile, loadEnv, saved, tokenVars, parseVars, cmdVars>>

LoadNext == CallLoad

SpecLoad == LoadInit /\ [][LoadNext]_vars

(***************************************************************************)
(* C22                                                                     *)
(***************************************************************************)

FirstNonEmpty(a, b, c) == IF a # "" THEN a ELSE IF b # "" THEN b ELSE c

\* What the files give: the selected profile, or the legacy fields
FileValues == FromFile(loadEnv, loadFileConfig(configFile, oldFile))

ResolvedURL == FirstNonEmpty(loadEnv.FlagURL, loadEnv.GHOST_URL, FileValues.URL)

ResolvedKey == FirstNonEmpty(loadEnv.FlagKey, loadEnv.GHOST_ADMIN_KEY, FileValues.Key)

\* C22: Load resolves the URL and the key each on its own with the priority
\* flag, then environment variable, then config file, and fails exactly when
\* the URL or the key it resolved is empty.
C22_LoadPriority ==
    loaded # NotLoaded =>
        /\ loaded.err = NoErr <=> (ResolvedURL # "" /\ ResolvedKey # "")
        /\ loaded.err = NoErr => loaded.cfg = Config(ResolvedURL, ResolvedKey)

\* The URL comes from the flag over the environment and the file, the key
\* from the environment over the file.
C22_Witness ==
    /\ loaded # NotLoaded
    /\ loaded.err = NoErr
    /\ loadEnv.FlagURL # "" /\ loadEnv.GHOST_URL # "" /\ FileValues.URL # ""
    /\ loadEnv.FlagKey = "" /\ loadEnv.GHOST_ADMIN_KEY # "" /\ FileValues.Key # ""
    /\ loaded.cfg = Config("flag-url", "env-key")

(***************************************************************************)
(* Sequences of config.SaveInstance                                        *)
(***************************************************************************)

MaxSaves == 3

\* The names a profile is saved under; login takes the name from the command
\* line as it is, the empty string too.
ProfileNames == {"", "default", "work"}

SavedConfigs == {Config("a-url", "a-key"), Config("b-url", "b-key")}

\* Whether the directory and the file can be written
Disks == {"ok", "read-only"}

SaveInit ==
    /\ configFile = NoFile
    /\ oldFile \in {NoFile, File("yaml", "", NoInstances, "home-url", "home-key")}
    /\ loadEnv = NoEnv
    /\ loaded = NotLoaded
    /\ saved = <<>>
    /\ TokenIdle
    /\ ParseIdle
    /\ CmdIdle

SaveInstanceOn(name, cfg, setDefault, disk) ==
    IF disk = "ok"
    THEN /\ configFile' = SaveInstance(name, cfg, setDefault, configFile, oldFile)
         /\ saved' = Append(saved, Saved(name, cfg, setDefault, configFile, NoErr))
    ELSE /\ configFile' = configFile
         /\ saved' = Append(saved, Saved(name, cfg, setDefault, configFile, "writing config"))

CallSaveInstance ==
    /\ Len(saved) < MaxSaves
    /\ \E name \in ProfileNames, cfg \in SavedConfigs, setDefault \in BOOLEAN, disk \in Disks :
        SaveInstanceOn(name, cfg, setDefault, disk)
    /\ UNCHANGED <<oldFile, loadEnv, loaded, tokenVars, parseVars, cmdVars>>

SaveNext == CallSaveInstance

SpecSave == SaveInit /\ [][SaveNext]_vars

(***************************************************************************)
(* C28                                                                     *)
(***************************************************************************)

StartedWithNoFile == oldFile = NoFile

LastSaved == saved[Len(saved)]

\* The default SaveInstance found: none when there was no file
DefaultBefore(s) == IF s.before.kind = "yaml" THEN s.before.Default ELSE ""

InstancesBefore(s) == IF s.before.kind = "yaml" THEN s.before.Instances ELSE NoInstances

DefaultIsAnInstance ==
    configFile.kind = "yaml" => configFile.Default \in DOMAIN configFile.Instances

DefaultRule ==
    (saved # <<>> /\ LastSaved.err = NoErr) =>
        /\ configFile.Instances[LastSaved.name] = LastSaved.cfg
        /\ configFile.Default =
               IF LastSaved.setDefault \/ DefaultBefore(LastSaved) = ""
               THEN LastSaved.name ELSE DefaultBefore(LastSaved)

EarlierKept ==
    (saved # <<>> /\ LastSaved.err = NoErr) =>
        \A n \in DOMAIN InstancesBefore(LastSaved) :
            n # LastSaved.name =>
                /\ n \in DOMAIN configFile.Instances
                /\ configFile.Instances[n] = InstancesBefore(LastSaved)[n]

\* C28: starting from no config file, after every SaveInstance the stored
\* config has a non-empty default that names one of its instances; the
\* instance just saved is the default exactly when setDefault was true or
\* there was no default before, and the instances saved before under other
\* names are still there.
C28_SavedConfigWellFormed ==
    StartedWithNoFile =>
        /\ configFile.kind = "yaml" => configFile.Default # ""
        /\ DefaultIsAnInstance
        /\ DefaultRule
        /\ EarlierKept

\* What holds whatever the names: the default names an instance, the rule of
\* the default, and the earlier instances
C28_AllButNonEmpty == StartedWithNoFile => DefaultIsAnInstance /\ DefaultRule /\ EarlierKept

\* The profile saved under the empty name is the default, and empty
C28_EmptyDefault ==
    /\ StartedWithNoFile
    /\ Len(saved) = 1
    /\ saved[1].name = ""
    /\ saved[1].err = NoErr
    /\ configFile.Default = ""
    /\ "" \in DOMAIN configFile.Instances

(***************************************************************************)
(* specter login                                                           *)
(***************************************************************************)

\* A URL is its scheme, if it has one, and the characters after it.
Schemes == {"http://", "https://"}

\* login.go:71-73
WithScheme(u) == IF u # <<>> /\ u[1] \in Schemes THEN u ELSE <<"https://">> \o u

\* login.go:68-74: the URL as login uses it
NormalizeURL(entered) == TrimSlash(WithScheme(TrimSpace(entered)))

\* json.Unmarshal(data, &siteResp) of a response body: a struct takes an
\* object and null, and neither text that is not JSON nor an array.
UnmarshalSite(b) == [err |-> b.syntax \notin {"object", "null"}]

\* The connection test taken as passed whatever it returned
VerifiedAlways(r) == TRUE

\* login.go:120-133: the connection test passed
Verified(r) == r.err = Nil /\ ~UnmarshalSite(r.data).err

\* specter login [profile] [--default], with what is typed at the two prompts
LoginCmd(profile, url, k, default) ==
    [name |-> "login", profile |-> profile, url |-> url, key |-> k, default |-> default]

EnteredURLs == {<<"h", LF>>, <<"https://", "h", "/", LF>>, <<" ", "http://", "h", LF>>}

\* Nothing, blanks, a key with no ":", a good key, a key whose secret is not
\* hex
EnteredKeys ==
    {<<LF>>, <<" ", LF>>, <<"k", "a", "F", LF>>, <<"k", ":", "a", "F", CR, LF>>,
     <<" ", "k", ":", "g", "a", LF>>}

LoginCommands ==
    {LoginCmd(p, u, k, d) :
        p \in {"default", "work"}, u \in EnteredURLs, k \in EnteredKeys, d \in BOOLEAN}

LoginInit ==
    /\ cmd \in LoginCommands
    /\ key = <<>>
    /\ baseURL = <<>>
    /\ lookups = NotLookedUp
    /\ pc = "start"
    /\ page = 0
    /\ all = <<>>
    /\ calls = <<>>
    /\ uploads = <<>>
    /\ ret = NoRet
    /\ configFile \in {NoFile,
                       File("yaml", "work", [n \in {"work"} |-> Config("a-url", "a-key")], "", "")}
    /\ oldFile = NoFile
    /\ loadEnv = NoEnv
    /\ loaded = NotLoaded
    /\ saved = <<>>
    /\ TokenIdle
    /\ ParseIdle

\* runLogin returning before the connection test
LoginRefused(msg) ==
    /\ ret' = Ret(Error(msg, <<>>, NoBody, 0, NoErr), FALSE, <<>>)
    /\ UNCHANGED <<key, baseURL, calls, saved, configFile>>

\* runLogin from the connection test on: u and k are the URL and the key it
\* goes on with, r what client.Get("/site/", nil) returned.
LoginTested(u, k, r, net, disk) ==
    /\ key' = NewClient(Config(u, k)).key
    /\ baseURL' = NewClient(Config(u, k)).baseURL
    /\ calls' = Append(calls, Call("GET", "site", "", NoQuery, r, net))
    /\ IF Verified(r)
       THEN /\ SaveInstanceOn(cmd.profile, Config(u, k), cmd.default, disk)
            /\ ret' = IF disk = "ok" THEN Ret(Nil, TRUE, <<>>)
                      ELSE Ret(Error("writing config", <<>>, NoBody, 0, NoErr), FALSE, <<>>)
       ELSE /\ UNCHANGED <<saved, configFile>>
            /\ ret' = IF r.err # Nil
                      THEN Ret(Error("connection failed", <<>>, NoBody, 0, r.err.kind),
                               FALSE, <<>>)
                      ELSE Ret(Error("parsing response", <<>>, NoBody, 0, NoErr), FALSE, <<>>)

LoginWith(u, k, net, disk) ==
    IF k = <<>> THEN LoginRefused("admin key cannot be empty")
    ELSE IF ~HasColon(k) THEN LoginRefused("invalid key format")
    ELSE LoginTested(u, k, Get(k, "", TimeOfCall(0), net), net, disk)

\* runLogin: the URL and the key are read and trimmed, the key is checked,
\* GET /site/ is made with them, and the profile is saved.
Login ==
    /\ cmd.name = "login"
    /\ pc = "start"
    /\ \E u \in {NormalizeURL(cmd.url)}, k \in {TrimSpace(cmd.key)} :
        \E net \in NetOutcomes, disk \in Disks : LoginWith(u, k, net, disk)
    /\ pc' = "done"
    /\ UNCHANGED <<cmd, lookups, page, all, uploads, oldFile, loadEnv, loaded,
                   tokenVars, parseVars>>

LoginNext == Login

SpecLogin == LoginInit /\ [][LoginNext]_vars

(***************************************************************************)
(* C29                                                                     *)
(***************************************************************************)

\* The one call there is is a GET /site/ that succeeded with a body that
\* decodes, made by a client of the URL u and the key k with a token of
\* that key.
SiteVerified(u, k) ==
    /\ Len(calls) = 1
    /\ calls[1].method = "GET" /\ calls[1].res = "site"
    /\ calls[1].attempts = 1
    /\ Answered(calls[1])
    /\ calls[1].net.body.syntax \in {"object", "null"}
    /\ calls[1].token = GenerateToken(k, TimeOfCall(0)).token
    /\ key = k
    /\ baseURL = u

ConnectionFailed == calls # <<>> /\ calls[1].err # Nil

\* The step of a login that typed the URL u and the key k
SavesOnlyVerified(u, k) ==
    /\ saved' # saved => SiteVerified(u, k)'
    /\ (pc' = "done" /\ (k = <<>> \/ ~HasColon(k) \/ ConnectionFailed')) =>
           /\ ret'.err # Nil
           /\ saved' = saved
           /\ configFile' = configFile

\* C29: login calls SaveInstance only once GET /site/ with the entered URL
\* and key succeeded and its response decoded; with an empty key, a key
\* without ":" or a failed connection test it fails and leaves the config
\* file as it was.
C29_SaveOnlyVerified ==
    [][\A u \in {NormalizeURL(cmd.url)}, k \in {TrimSpace(cmd.key)} : SavesOnlyVerified(u, k)]_vars

\* A login was verified and saved
C29_Witness ==
    /\ pc = "done"
    /\ SiteVerified(<<"https://", "h">>, <<"k", ":", "a", "F">>)
    /\ Len(saved) = 1
    /\ saved[1].err = NoErr
    /\ saved[1].cfg = Config(<<"https://", "h">>, <<"k", ":", "a", "F">>)
    /\ configFile.Instances[cmd.profile] = saved[1].cfg

\* A login with a key whose secret is not hex failed at the connection test
\* without a request and without a save
C29_WitnessBadSecret ==
    /\ pc = "done"
    /\ Len(calls) = 1
    /\ calls[1].attempts = 0
    /\ ret.err.kind = "connection failed"
    /\ saved = <<>>

\* A login with a key without ":" failed before the connection test
C29_WitnessNoColon ==
    /\ pc = "done"
    /\ calls = <<>>
    /\ ret.err.kind = "invalid key format"

====
